---- MODULE Spec2Model ----
(***************************************************************************)
(* A model of the ignite-rs thin client: the Connection (construction,     *)
(* stream mutex, request framing, response classification) and the request *)
(* codecs of api/key_value.rs and api/cache_config.rs.                     *)
(*                                                                         *)
(* Spec       threads sharing one Connection, a BufStream and a server     *)
(* SpecLive   Spec with every thread and the server taking its next step   *)
(* SpecCodec  the request encoders as pure functions of a drawn request    *)
(* SpecFrame  the request frame each Cache method writes                   *)
(* SpecDecode the response decoders and the enum conversions of cache.rs   *)
(* SpecCache  Cache handles on one Connection against a server's cache     *)
(***************************************************************************)
EXTENDS Integers, Sequences, FiniteSets, TLC

VARIABLES cn, mutex, th, done, wbuf, wire, inbound, wlast, rlast, nextId, srv,
          readFailed, enc, frame, dec, store, sess, cc, ret, hist

vars == <<cn, mutex, th, done, wbuf, wire, inbound, wlast, rlast, nextId, srv,
          readFailed, enc, frame, dec, store, sess, cc, ret, hist>>

\* the variables of the connection, and those of the other specifications
ConnVars == <<cn, mutex, th, done, wbuf, wire, inbound, wlast, rlast, nextId, srv,
              readFailed>>
CacheVars == <<store, sess, cc, ret, hist>>
OtherVars == <<frame, dec, store, sess, cc, ret, hist>>

(***************************************************************************)
(* Bounds                                                                  *)
(***************************************************************************)
NumThreads == 2
MaxCalls == 3

Threads == 1..NumThreads

(***************************************************************************)
(* Integers of the program.  A usize is kept as hi * 2^31 + lo so that     *)
(* sizes beyond the i32 range can be written down; an i32 is an integer    *)
(* between I32Min and I32Max.                                              *)
(***************************************************************************)
I32Max == 2147483647
I32Min == -I32Max - 1

REQ_HEADER_SIZE_BYTES == 10

USize(hi, lo) == [hi |-> hi, lo |-> lo]

\* `payload_len as i32`: the low 32 bits, read as two's complement
AsI32(sz) == IF sz.hi % 2 = 0 THEN sz.lo ELSE sz.lo + I32Min

\* i32 addition of a non-negative b: overflow and the wrapped sum
AddOverflows(a, b) == a > I32Max - b
WrappingAdd(a, b) == IF AddOverflows(a, b) THEN (a + I32Min) + (b + I32Min) ELSE a + b

\* the length field equals n + 10, n a usize
IsLenOf(len, n) == n.hi = 0 /\ n.lo <= I32Max - REQ_HEADER_SIZE_BYTES
                   /\ len = n.lo + REQ_HEADER_SIZE_BYTES

\* no call: a thread outside the Connection, and done when no call has just ended
NoCall == [pc |-> "idle", id |-> 0, kind |-> "none", size |-> USize(0, 0),
           len |-> 0, written |-> USize(0, 0), hdrs |-> 0, ios |-> 0,
           status |-> "none", got |-> 0, res |-> "none", fail |-> "none",
           steps |-> <<>>, inner |-> "none"]

(***************************************************************************)
(* Connection::new                                                         *)
(***************************************************************************)
NewConn == [pc |-> "connect", connected |-> FALSE, tuned |-> FALSE,
            handshakes |-> 0, hsOk |-> FALSE, result |-> "none"]

\* what `new` returns for the outcome of handshake(): Ok(Connection) or Err(err)
NewResultAlways(ok) == "Some"
NewResult(ok) == IF ok THEN "Some" ELSE "Err"

\* match TcpStream::connect(&conf.addr)
TcpConnect ==
    /\ cn.pc = "connect"
    /\ \E ok \in BOOLEAN :
         cn' = IF ok THEN [cn EXCEPT !.pc = "configure", !.connected = TRUE]
                     ELSE [cn EXCEPT !.pc = "done", !.result = "Err"]
    /\ done' = NoCall /\ UNCHANGED <<mutex, th, wbuf, wire, inbound, wlast, rlast, nextId, srv, readFailed, enc, OtherVars>>

\* Connection::configure_tcp(&stream, conf)?
ConfigureTcp ==
    /\ cn.pc = "configure"
    /\ \E ok \in BOOLEAN :
         cn' = IF ok THEN [cn EXCEPT !.pc = "handshake", !.tuned = TRUE]
                     ELSE [cn EXCEPT !.pc = "done", !.result = "Err"]
    /\ done' = NoCall /\ UNCHANGED <<mutex, th, wbuf, wire, inbound, wlast, rlast, nextId, srv, readFailed, enc, OtherVars>>

\* match handshake(&mut buffered_stream, conf)
Handshake ==
    /\ cn.pc = "handshake"
    /\ \E ok \in BOOLEAN :
         cn' = [cn EXCEPT !.pc = "done", !.handshakes = @ + 1, !.hsOk = ok,
                          !.result = NewResult(ok)]
    /\ done' = NoCall /\ UNCHANGED <<mutex, th, wbuf, wire, inbound, wlast, rlast, nextId, srv, readFailed, enc, OtherVars>>

(***************************************************************************)
(* Calls on the Connection                                                 *)
(*                                                                         *)
(* th[t] is thread t's call in progress; done is the call that ended in    *)
(* the step just taken, as its caller sees it.  Calls are numbered in the order in which they   *)
(* take the lock, which is the order of their requests on the stream.      *)
(* wlast and rlast are the numbers of the calls that last wrote to and     *)
(* last read from the stream.                                              *)
(***************************************************************************)
Kinds == {"send", "send_and_read", "send_and_read_dyn"}

\* payload.size() of the requests drawn: 5, 2^31 - 10 and 2^32
PayloadSizes == {USize(0, 5), USize(0, I32Max - 9), USize(2, 0)}

Dead == [NoCall EXCEPT !.pc = "panicked"]

Chunk(c, part, body, good) == [call |-> c, part |-> part, body |-> body, good |-> good]

HasBody(kind) == kind # "send"

\* one more operation on the stream
Io(r) == [r EXCEPT !.ios = @ + 1]

\* the steps of a call in the order it takes them: payload.size() evaluated,
\* then each operation on the stream
Sized(r) == [r EXCEPT !.steps = Append(@, "size")]
Step(r, step) == [Io(r) EXCEPT !.steps = Append(@, step)]

\* the `?` of a failing step: the call ends with that error
FailRetry(r, err, step) == [r EXCEPT !.pc = "size", !.fail = step]
Fail(r, err, step) == [r EXCEPT !.pc = "returned", !.res = err, !.fail = step]

\* a panic unwinds the calling thread
Panic(r, step) == [r EXCEPT !.pc = "panicked", !.res = "Panic", !.fail = step]

\* the call returns Ok
Ok(r) == [r EXCEPT !.pc = "returned", !.res = "Ok"]

\* a guard that is dropped on Ok and on a panic, and kept when the call fails
GuardLeaked(r) ==
    CASE r.pc = "returned" /\ r.res = "Ok" -> [mutex EXCEPT !.holder = 0]
      [] r.pc = "panicked" -> [holder |-> 0, poisoned |-> TRUE]
      [] OTHER -> mutex

\* the guard is dropped when the call returns; dropped while panicking it poisons
GuardAfter(r) ==
    CASE r.pc = "returned" -> [mutex EXCEPT !.holder = 0]
      [] r.pc = "panicked" -> [holder |-> 0, poisoned |-> TRUE]
      [] OTHER -> mutex

\* thread t's call goes on as r, or it is over and r is what its caller sees
Becomes(t, r) ==
    /\ mutex' = GuardAfter(r)
    /\ CASE r.pc = "returned" -> th' = [th EXCEPT ![t] = NoCall] /\ done' = r
         [] r.pc = "panicked" -> th' = [th EXCEPT ![t] = Dead] /\ done' = r
         [] OTHER -> th' = [th EXCEPT ![t] = r] /\ done' = NoCall

Waiting == {t \in Threads : th[t].pc = "lock"}

\* Cache / Ignite methods: one call of send, send_and_read or send_and_read_dyn
Call(t) ==
    /\ cn.result = "Some"
    /\ th[t].pc = "idle"
    /\ nextId + Cardinality(Waiting) < MaxCalls
    /\ \E k \in Kinds : th' = [th EXCEPT ![t] = [NoCall EXCEPT !.pc = "lock", !.kind = k]]
    /\ done' = NoCall /\ UNCHANGED <<cn, mutex, wbuf, wire, inbound, wlast, rlast, nextId, srv, readFailed, enc, OtherVars>>

\* self.stream.lock()?
LockIgnorePoison(t) ==
    /\ th[t].pc = "lock"
    /\ mutex.holder = 0
    /\ mutex' = [mutex EXCEPT !.holder = t]
    /\ th' = [th EXCEPT ![t].pc = "size", ![t].id = nextId + 1]
    /\ nextId' = nextId + 1
    /\ done' = NoCall /\ UNCHANGED <<cn, wbuf, wire, inbound, wlast, rlast, srv, readFailed, enc, OtherVars>>

Lock(t) ==
    /\ th[t].pc = "lock"
    /\ mutex.holder = 0
    /\ IF mutex.poisoned
         THEN /\ Becomes(t, Fail(th[t], "MutexPoisoned", "lock"))
              /\ UNCHANGED nextId
         ELSE /\ mutex' = [mutex EXCEPT !.holder = t]
              /\ th' = [th EXCEPT ![t].pc = "size", ![t].id = nextId + 1]
              /\ nextId' = nextId + 1
              /\ done' = NoCall
    /\ UNCHANGED <<cn, wbuf, wire, inbound, wlast, rlast, srv, readFailed, enc, OtherVars>>

\* the length field without the ten bytes of op code and request id
HeaderLenNoHeader(sz) == AsI32(sz)
\* the length field: payload_len as i32 + REQ_HEADER_SIZE_BYTES (wrapping build)
HeaderLen(sz) == WrappingAdd(AsI32(sz), REQ_HEADER_SIZE_BYTES)

\* Connection::write_req_header(con, payload.size(), op_code as i16)?
WriteReqHeader(t) ==
    /\ th[t].pc = "size"
    /\ \E o \in {"ok", "io", "panic"}, sz \in PayloadSizes :
         CASE o = "ok" ->
                \* sz is payload.size(); the bytes go to the BufStream's write buffer
                /\ Becomes(t, Step(Sized([th[t] EXCEPT !.pc = "hdr", !.size = sz,
                                                       !.len = HeaderLen(sz), !.hdrs = @ + 1]),
                                   "header"))
                /\ wbuf' = Append(wbuf, Chunk(th[t].id, "hdr", HasBody(th[t].kind),
                                              IsLenOf(HeaderLen(sz), sz)))
                /\ wlast' = th[t].id
           [] o = "io" ->
                /\ Becomes(t, Step(Sized(Fail(th[t], "IoError", "header")), "header"))
                /\ UNCHANGED <<wbuf, wlast>>
           [] o = "panic" ->
                \* payload.size() panics, or the addition overflows in a build
                \* with overflow checks
                /\ Becomes(t, Sized(Panic(th[t], "size")))
                /\ UNCHANGED <<wbuf, wlast>>
    /\ UNCHANGED <<cn, wire, inbound, rlast, nextId, srv, readFailed, enc, OtherVars>>

\* payload.write(con)?
WritePayload(t) ==
    /\ th[t].pc = "hdr"
    /\ \E o \in {"ok", "io"} :
         CASE o = "ok" ->
                /\ Becomes(t, Step([th[t] EXCEPT !.pc = "payload", !.written = th[t].size],
                                   "payload"))
                /\ wbuf' = Append(wbuf, Chunk(th[t].id, "payload", HasBody(th[t].kind), TRUE))
           [] o = "io" ->
                \* the header stays in the write buffer of the BufStream
                /\ Becomes(t, Step(Fail(th[t], "IoError", "payload"), "payload"))
                /\ UNCHANGED wbuf
    /\ wlast' = th[t].id
    /\ UNCHANGED <<cn, wire, inbound, rlast, nextId, srv, readFailed, enc, OtherVars>>

\* what reaches the server
Sent == IF srv = "up" THEN wire \o wbuf ELSE <<>>

\* con.flush()?
FlushUnlock(t) ==
    /\ th[t].pc = "payload"
    /\ th' = [th EXCEPT ![t] = Step([th[t] EXCEPT !.pc = "flushed"], "flush")]
    /\ mutex' = [mutex EXCEPT !.holder = 0]
    /\ wire' = Sent
    /\ wbuf' = <<>>
    /\ done' = NoCall /\ UNCHANGED <<cn, inbound, wlast, rlast, nextId, srv, readFailed, enc, OtherVars>>

Flush(t) ==
    /\ th[t].pc = "payload"
    /\ \E o \in {"ok", "io"} :
         CASE o = "ok" ->
                /\ Becomes(t, Step([th[t] EXCEPT !.pc = "flushed"], "flush"))
                /\ wire' = Sent
                /\ wbuf' = <<>>
           [] o = "io" ->
                /\ Becomes(t, Step(Fail(th[t], "IoError", "flush"), "flush"))
                /\ UNCHANGED <<wire, wbuf>>
    /\ UNCHANGED <<cn, inbound, wlast, rlast, nextId, srv, readFailed, enc, OtherVars>>

(***************************************************************************)
(* The server: it answers the frames in arrival order.  A response is      *)
(* header (length, request id, status), then the error string when the     *)
(* status is not 0, or the operation's body.                               *)
(***************************************************************************)
Resp(c, status, msg, body) ==
    [req |-> c, status |-> status, msg |-> msg, body |-> body, rem |-> "all"]

Replies(c, body) == {Resp(c, "ok", "none", body), Resp(c, "fail", "text", FALSE),
                     Resp(c, "fail", "null", FALSE)}

FrameAtHead ==
    /\ Len(wire) >= 2
    /\ wire[1].part = "hdr" /\ wire[1].good
    /\ wire[2].part = "payload" /\ wire[2].call = wire[1].call

\* bytes that are no frame: the server cannot find the next request
GarbageAtHead ==
    /\ wire # <<>>
    /\ \/ wire[1].part # "hdr"
       \/ ~wire[1].good
       \/ Len(wire) >= 2 /\ ~(wire[2].part = "payload" /\ wire[2].call = wire[1].call)

ServerReply ==
    /\ srv = "up"
    /\ FrameAtHead
    /\ \E r \in Replies(wire[1].call, wire[1].body) : inbound' = Append(inbound, r)
    /\ wire' = Tail(Tail(wire))
    /\ done' = NoCall /\ UNCHANGED <<cn, mutex, th, wbuf, wlast, rlast, nextId, srv, readFailed, enc, OtherVars>>

ServerLost ==
    /\ srv = "up"
    /\ GarbageAtHead
    /\ srv' = "lost"
    /\ wire' = <<>>
    /\ done' = NoCall /\ UNCHANGED <<cn, mutex, th, wbuf, inbound, wlast, rlast, nextId, readFailed, enc, OtherVars>>

(***************************************************************************)
(* The read half of the round trip                                         *)
(***************************************************************************)
\* the call ended with an error of the read half: an I/O error or a timeout while
\* the response header or the body is read, or a decode error
ReadFailure(r) == r.res \in {"IoError", "Custom"} /\ r.fail \in {"resp_header", "decode", "callback"}

\* what is left of the response at the head once its header has been read
AfterHeader(h) == IF h.status = "ok" /\ h.body
                    THEN <<[h EXCEPT !.rem = "body"]>> \o Tail(inbound)
                    ELSE Tail(inbound)

\* the header read and its status
Header(r, h) == Step([r EXCEPT !.status = h.status, !.got = h.req], "resp_header")

\* Flag::Success => Ok(()): send returns, the other two go on to the body
Success(r) == IF r.kind = "send" THEN Ok(r) ELSE [r EXCEPT !.pc = "status0"]

\* a failure status that lets the call go on to the body
FailureDecodes(r) == [r EXCEPT !.pc = "status0"]
\* Flag::Failure { err_msg } => Err(Error::from(err_msg.as_str()))
Failure(r) == Fail(r, "Custom", "status")

\* let err_msg = String::read(reader)?; Failure { err_msg: err_msg.unwrap() }
ErrMsg(r, msg) == IF msg = "null" THEN Panic(r, "unwrap") ELSE Failure(r)

\* match Connection::read_resp_header(con)?
ReadRespHeader(t) ==
    /\ th[t].pc = "flushed"
    /\ IF inbound = <<>>
         THEN \* nothing arrives before the read timeout
              /\ Becomes(t, Step(Fail(th[t], "IoError", "resp_header"), "resp_header"))
              /\ UNCHANGED <<inbound, rlast>>
         ELSE LET h == Head(inbound) IN
              /\ rlast' = th[t].id
              /\ IF h.rem = "all"
                   THEN /\ inbound' = AfterHeader(h)
                        /\ IF h.status = "ok"
                             THEN Becomes(t, Success(Header(th[t], h)))
                             ELSE Becomes(t, ErrMsg(Header(th[t], h), h.msg))
                   ELSE \* the rest of an earlier response is read as a header
                        /\ inbound' = Tail(inbound)
                        /\ \E st \in {"ok", "fail"} :
                             LET r == Header(th[t], [h EXCEPT !.status = st]) IN
                             Becomes(t, IF st = "ok" THEN Success(r) ELSE Failure(r))
    /\ readFailed' = (readFailed \/ ReadFailure(done'))
    /\ UNCHANGED <<cn, wbuf, wire, wlast, nextId, srv, enc, OtherVars>>

\* the body of the response is read from the still locked stream
ReadBody(t, step) ==
    /\ th[t].pc = "status0"
    /\ IF inbound = <<>>
         THEN /\ Becomes(t, Step(Fail(th[t], "IoError", step), step))
              /\ UNCHANGED <<inbound, rlast>>
         ELSE LET h == Head(inbound) IN
              /\ rlast' = th[t].id
              /\ \E o \in {"ok", "err", "panic"}
                            \cup (IF step = "callback" THEN {"nested"} ELSE {}) :
                   CASE o = "ok" ->
                          /\ Becomes(t, Step(Ok(th[t]), step))
                          /\ inbound' = Tail(inbound)
                     [] o = "err" ->
                          \* a decode error part way: the rest stays in the stream
                          /\ Becomes(t, Step(Fail(th[t], "Custom", step), step))
                          /\ inbound' = <<[h EXCEPT !.rem = "body"]>> \o Tail(inbound)
                     [] o = "panic" ->
                          /\ Becomes(t, Step(Panic(th[t], step), step))
                          /\ inbound' = <<[h EXCEPT !.rem = "body"]>> \o Tail(inbound)
                     [] o = "nested" ->
                          \* the consumer calls send, send_and_read or
                          \* send_and_read_dyn on this Connection
                          /\ Becomes(t, Step([th[t] EXCEPT !.pc = "nested", !.inner = "lock"],
                                             step))
                          /\ inbound' = <<[h EXCEPT !.rem = "body"]>> \o Tail(inbound)
    /\ readFailed' = (readFailed \/ ReadFailure(done'))
    /\ UNCHANGED <<cn, wbuf, wire, wlast, nextId, srv, enc, OtherVars>>

\* send_and_read_safe: T::read(buf)
Decode(t) == th[t].kind = "send_and_read" /\ ReadBody(t, "decode")

\* send_and_read_dyn: cb(&mut Box::new(buf))?
Callback(t) == th[t].kind = "send_and_read_dyn" /\ ReadBody(t, "callback")

\* a lock that lets the thread holding it in again: the inner call completes
\* and the consumer returns Ok
RelockReentrant(t) ==
    /\ th[t].pc = "nested"
    /\ Becomes(t, Ok([th[t] EXCEPT !.inner = "ok"]))
    /\ UNCHANGED <<cn, wbuf, wire, inbound, wlast, rlast, nextId, srv, readFailed, enc, OtherVars>>

\* self.stream.lock() of the inner call, on the thread that holds the lock:
\* std's Mutex leaves it unspecified; the call does not return, the thread
\* blocks for ever or panics
Relock(t) ==
    /\ th[t].pc = "nested"
    /\ \E o \in {"deadlock", "panic"} :
         IF o = "deadlock"
           THEN Becomes(t, [th[t] EXCEPT !.pc = "deadlocked", !.inner = "deadlock"])
           ELSE Becomes(t, Panic([th[t] EXCEPT !.inner = "panic"], "relock"))
    /\ UNCHANGED <<cn, wbuf, wire, inbound, wlast, rlast, nextId, srv, readFailed, enc, OtherVars>>

(***************************************************************************)
(* Specification of the connection                                         *)
(***************************************************************************)
EncOff == [stage |-> "off"]
FrameOff == [stage |-> "off"]
DecOff == [stage |-> "off"]

\* no Cache handle in use
CacheOff ==
    /\ store = <<>>
    /\ sess = [holder |-> 0]
    /\ cc = <<>>
    /\ ret = [pc |-> "none"]
    /\ hist = <<>>

\* the connection before Connection::new
ConnInit ==
    /\ cn = NewConn
    /\ mutex = [holder |-> 0, poisoned |-> FALSE]
    /\ th = [t \in Threads |-> NoCall]
    /\ done = NoCall
    /\ wbuf = <<>>
    /\ wire = <<>>
    /\ inbound = <<>>
    /\ wlast = 0
    /\ rlast = 0
    /\ nextId = 0
    /\ srv = "up"
    /\ readFailed = FALSE

Init ==
    /\ cn = NewConn
    /\ mutex = [holder |-> 0, poisoned |-> FALSE]
    /\ th = [t \in Threads |-> NoCall]
    /\ done = NoCall
    /\ wbuf = <<>>
    /\ wire = <<>>
    /\ inbound = <<>>
    /\ wlast = 0
    /\ rlast = 0
    /\ nextId = 0
    /\ srv = "up"
    /\ readFailed = FALSE
    /\ enc = EncOff
    /\ frame = FrameOff
    /\ dec = DecOff
    /\ CacheOff

Next ==
    \/ TcpConnect
    \/ ConfigureTcp
    \/ Handshake
    \/ \E t \in Threads : Call(t)
    \/ \E t \in Threads : Lock(t)
    \/ \E t \in Threads : WriteReqHeader(t)
    \/ \E t \in Threads : WritePayload(t)
    \/ \E t \in Threads : Flush(t)
    \/ \E t \in Threads : ReadRespHeader(t)
    \/ \E t \in Threads : Decode(t)
    \/ \E t \in Threads : Callback(t)
    \/ \E t \in Threads : Relock(t)
    \/ ServerReply
    \/ ServerLost

Spec == Init /\ [][Next]_vars

\* the steps of thread t inside the Connection
Steps(t) ==
    \/ Lock(t)
    \/ WriteReqHeader(t)
    \/ WritePayload(t)
    \/ Flush(t)
    \/ ReadRespHeader(t)
    \/ Decode(t)
    \/ Callback(t)
    \/ Relock(t)

\* A thread inside a call goes on when it can: its writes, flush and reads
\* return, its decoder or consumer returns, and lock() returns once the lock
\* stays free.  The server answers the frames it receives.
SpecLive == Init /\ [][Next]_vars /\ (\A t \in Threads : WF_vars(Steps(t))) /\ WF_vars(ServerReply)

(***************************************************************************)
(* Properties of the connection                                            *)
(***************************************************************************)
\* the lock has been taken and the call has not returned
Locked == {"size", "hdr", "payload", "flushed", "status0", "nested", "deadlocked"}

\* between 'header write started' and 'response read finished'
InFlight == {"hdr", "payload", "flushed", "status0", "nested", "deadlocked"}

\* C1: a call holds the stream lock from before its first header byte until its
\* response has been read, so at most one call is in flight and no other call
\* writes to or reads from the stream in between: the bytes of two calls are not
\* interleaved in either direction.
C1_RoundTripExclusive ==
    /\ \A t \in Threads : th[t].pc \in Locked => mutex.holder = t
    /\ Cardinality({t \in Threads : th[t].pc \in InFlight}) <= 1
    /\ \A t \in Threads : th[t].pc \in InFlight => wlast <= th[t].id /\ rlast <= th[t].id
    /\ wlast <= nextId /\ rlast <= nextId

\* a second call is between flush and the end of its response while another waits
C1_Witness ==
    \E t, u \in Threads :
        /\ th[t].pc = "status0" /\ th[t].id >= 2 /\ rlast = th[t].id
        /\ th[u].pc = "lock"

\* C2: a call that reads a response reads the response to its own request: the
\* i-th request on the stream gets the i-th response.
C2_FifoMatching ==
    /\ \A t \in Threads : th[t].status # "none" => th[t].got = th[t].id
    /\ done.status # "none" => done.got = done.id

\* C3: once payload.write has returned, the length field written in the header
\* is the number of payload bytes written plus 10.
C3_FrameLength ==
    \A t \in Threads :
        th[t].pc \in {"payload", "flushed", "status0"} => IsLenOf(th[t].len, th[t].written)

\* C6: a response with a nonzero status makes the call return an error value with
\* the server's message; the call does not panic.
C6_FailurePropagation == done.status = "fail" => done.res = "Custom"

\* C7: once a call has failed in the read half of its round trip, no later call
\* writes a request or returns Ok.
C7_SessionPoisoned ==
    readFailed => /\ \A t \in Threads : th[t].hdrs = 0
                  /\ done.res # "Ok"

\* C8: once the lock is poisoned, no call gets past lock(): each one ends with
\* MutexPoisoned without an operation on the stream.
C8_PoisonedLock ==
    /\ mutex.poisoned => \A t \in Threads : th[t].pc \notin Locked
    /\ mutex.poisoned /\ done.pc = "returned" =>
           done.res = "MutexPoisoned" /\ done.ios = 0 /\ done.hdrs = 0
    /\ done.res = "MutexPoisoned" => mutex.poisoned

\* thread t was refused the poisoned lock
C8_Witness == mutex.poisoned /\ done.res = "MutexPoisoned" /\ done.fail = "lock"

\* the operations on the stream a call has made when the named step fails
IosAt(step) ==
    CASE step \in {"lock", "size"} -> 0
      [] step = "header" -> 1
      [] step = "payload" -> 2
      [] step = "flush" -> 3
      [] step \in {"resp_header", "status", "unwrap"} -> 4
      [] step \in {"decode", "callback"} -> 5

\* the error the named step gives
ErrorsOf(step) ==
    CASE step = "lock" -> {"MutexPoisoned"}
      [] step \in {"header", "payload", "flush", "resp_header"} -> {"IoError"}
      [] step = "status" -> {"Custom"}
      [] step \in {"decode", "callback"} -> {"IoError", "Custom"}
      [] OTHER -> {}

\* C9: the first failing step ends the call with that step's error; the call
\* makes no operation on the stream after it and writes one header at most.
C9_NoRetryNoSwallow ==
    /\ \A t \in Threads : th[t].fail = "none" /\ th[t].hdrs <= 1
    /\ done.pc = "returned" /\ done.fail # "none" =>
           /\ done.res \in ErrorsOf(done.fail)
           /\ done.ios = IosAt(done.fail)
           /\ done.hdrs <= 1
    /\ done.pc = "returned" /\ done.fail = "none" => done.res = "Ok"

\* the payload write failed: the call returned the I/O error without a flush
C9_Witness == done.fail = "payload" /\ done.res = "IoError" /\ done.ios = 2

\* the steps of a round trip, in the order of send_safe and its callers
RoundTrip(kind) ==
    <<"size", "header", "payload", "flush", "resp_header">>
      \o (CASE kind = "send_and_read" -> <<"decode">>
            [] kind = "send_and_read_dyn" -> <<"callback">>
            [] OTHER -> <<>>)

\* call r has taken its steps in the order of the round trip so far; it read
\* from the stream only after its flush, and read the body only on status 0
InOrder(r) ==
    /\ Len(r.steps) <= Len(RoundTrip(r.kind))
    /\ r.steps = SubSeq(RoundTrip(r.kind), 1, Len(r.steps))
    /\ r.got # 0 => Len(r.steps) >= 5
    /\ Len(r.steps) = 6 => r.status = "ok"
    /\ r.status = "fail" => Len(r.steps) = 5 /\ r.res # "Ok"

\* C24: within a round trip the steps are size(), header, payload, flush,
\* response header and then the body decode or the consumer; no response byte
\* is read before the flush, and on a nonzero status neither the decoder nor
\* the consumer is invoked.
C24_StepOrder ==
    /\ \A t \in Threads :
         /\ InOrder(th[t])
         /\ rlast = th[t].id /\ th[t].id # 0 => Len(th[t].steps) >= 5
         /\ th[t].pc = "status0" => th[t].status = "ok"
    /\ InOrder(done)

\* a send_and_read_dyn call got a failure status after an earlier call: it took
\* the five steps up to the response header and its consumer was not invoked
C24_Witness ==
    /\ done.kind = "send_and_read_dyn" /\ done.status = "fail" /\ done.res = "Custom"
    /\ done.id >= 2
    /\ done.steps = <<"size", "header", "payload", "flush", "resp_header">>

Nested(r) == r.inner # "none"

\* C26: the lock is not re-entrant.  A consumer of send_and_read_dyn that calls
\* into the same Connection meets the lock its own thread holds: the inner call
\* never gets the lock, and the outer call never returns Ok.
C26_LockNotReentrant ==
    /\ \A t \in Threads :
         Nested(th[t]) => /\ th[t].pc \in {"nested", "deadlocked"}
                          /\ mutex.holder = t
                          /\ th[t].inner \in {"lock", "deadlock"}
                          /\ th[t].kind = "send_and_read_dyn"
    /\ Nested(done) => done.pc = "panicked" /\ done.inner = "panic" /\ done.res # "Ok"
    /\ done.res = "Ok" => ~Nested(done)

\* the consumer of a second call has called into the Connection and its thread
\* is blocked on the lock it holds, another thread waiting behind it
C26_Witness ==
    \E t, u \in Threads :
        /\ th[t].pc = "deadlocked" /\ th[t].id >= 2 /\ mutex.holder = t
        /\ th[u].pc = "lock"

\* w is a concatenation of complete frames: each header is followed by the
\* payload of the same call
Framed(w) ==
    /\ Len(w) % 2 = 0
    /\ \A i \in 1..Len(w) :
         IF i % 2 = 1 THEN w[i].part = "hdr"
                      ELSE w[i].part = "payload" /\ w[i].call = w[i - 1].call

\* C27: what has been delivered to the server is a concatenation of complete
\* frames, also after calls that failed: no header of a failed call is sent
\* ahead of the frame of a later call.
C27_WireCompleteFrames == Framed(wire)

\* C10: new returns a Connection only after connect, tuning and handshake have
\* succeeded in this order; any failure gives an error, the handshake is tried
\* once at most, and requests are written only after a handshake that succeeded.
C10_HandshakeGating ==
    /\ cn.result = "Some" => cn.connected /\ cn.tuned /\ cn.hsOk /\ cn.handshakes = 1
    /\ cn.tuned => cn.connected
    /\ cn.handshakes > 0 => cn.tuned
    /\ cn.handshakes <= 1
    /\ cn.pc = "done" /\ ~(cn.connected /\ cn.tuned /\ cn.hsOk) => cn.result = "Err"
    /\ (nextId > 0 \/ wbuf # <<>> \/ \E t \in Threads : th[t].pc # "idle") => cn.hsOk

\* a request has been written on a connection whose handshake succeeded
C10_Witness == cn.result = "Some" /\ cn.handshakes = 1 /\ wlast > 0

(***************************************************************************)
(* The request codecs.  What a request writes is a sequence of fields,     *)
(* each with its width in bytes and its value; a string's bytes are one    *)
(* field each.                                                             *)
(***************************************************************************)
MaxKeys == 2
MaxStrLen == 2

F(w, v) == [w |-> w, v |-> v]

RECURSIVE BytesOf(_)
\* the number of bytes of a sequence of fields
BytesOf(fs) == IF fs = <<>> THEN 0 ELSE Head(fs).w + BytesOf(Tail(fs))

\* protocol type codes
TypeCodeLong == 4
TypeCodeString == 9
TypeCodeNull == 101

\* crate::protocol writers
write_u8(v) == <<F(1, v)>>
write_i8(v) == <<F(1, v)>>
write_i16(v) == <<F(2, v)>>
write_i32(v) == <<F(4, v)>>
write_i64(v) == <<F(8, v)>>
write_bool(b) == <<F(1, IF b THEN 1 ELSE 0)>>
write_null == <<F(1, TypeCodeNull)>>
write_string(str) == write_i32(Len(str)) \o [i \in 1..Len(str) |-> F(1, str[i])]
write_string_type_code(str) == write_u8(TypeCodeString) \o write_string(str)

\* strings: the UTF-8 bytes of "", "a", "b", "aa", ...
Bytes == {97, 98}
Strings == UNION {[1..n -> Bytes] : n \in 0..MaxStrLen}

\* WritableType values: an i64 or a String, written behind its type code
Long(n) == [t |-> "Long", n |-> n, s |-> <<>>]
Str(str) == [t |-> "String", n |-> 0, s |-> str]

ValueWrite(x) == IF x.t = "Long" THEN write_u8(TypeCodeLong) \o write_i64(x.n)
                                ELSE write_string_type_code(x.s)
ValueSize(x) == IF x.t = "Long" THEN 9 ELSE 5 + Len(x.s)

Keys == {Long(1), Long(2), Str(<<97>>)}
Values == {Long(7), Str(<<97, 98>>)}

RECURSIVE WriteAll(_)
\* for k in keys { k.write(writer)? }
WriteAll(ks) == IF ks = <<>> THEN <<>> ELSE ValueWrite(Head(ks)) \o WriteAll(Tail(ks))

RECURSIVE WritePairs(_)
\* for pair in pairs { pair.0.write(writer)?; pair.1.write(writer)? }
WritePairs(ps) == IF ps = <<>> THEN <<>>
                  ELSE ValueWrite(Head(ps)[1]) \o ValueWrite(Head(ps)[2]) \o WritePairs(Tail(ps))

RECURSIVE SizeAll(_)
\* for k in keys { size += k.size() }
SizeAll(ks) == IF ks = <<>> THEN 0 ELSE ValueSize(Head(ks)) + SizeAll(Tail(ks))

RECURSIVE SizePairs(_)
\* for pair in pairs { size += pair.0.size(); size += pair.1.size() }
SizePairs(ps) == IF ps = <<>> THEN 0
                 ELSE ValueSize(Head(ps)[1]) + ValueSize(Head(ps)[2]) + SizePairs(Tail(ps))

\* a flag byte of one
MagicByteOne == 0 + 1
MAGIC_BYTE == 0

\* the count of a list-valued field: keys.len() as i32
LenPlusOne(list) == Len(list) + 1
LenAsI32(list) == AsI32(USize(0, Len(list)))

\* the cache id without the flag byte
CacheIdSizeOnly == 5 - 1
CACHE_ID_MAGIC_BYTE_SIZE == 5

SingleKeyOps == {"Get", "ContainsKey", "GetAndRemove", "ClearKey", "RemoveKey"}
BulkKeyOps == {"GetAll", "ContainsKeys", "ClearKeys", "RemoveKeys"}
KeyValueOps == {"Put", "GetAndPut", "GetAndReplace", "PutIfAbsent", "GetAndPutIfAbsent",
                "Replace", "RemoveIfEquals"}
NoPayloadOps == {"Clear", "RemoveAll"}

\* one null argument bound to the query
QueryArgsNull(r) == write_i32(1) \o write_null
\* write_i32(writer, 0)?; // Argument count.  No argument is written behind it.
QueryArgs(r) == write_i32(0)

\* impl WriteableReq for CacheReq: write
CacheReqWrite(r) ==
    CASE r.op \in SingleKeyOps ->
           write_i32(r.id) \o write_u8(MAGIC_BYTE) \o ValueWrite(r.key)
      [] r.op \in BulkKeyOps ->
           write_i32(r.id) \o write_u8(MAGIC_BYTE) \o write_i32(LenAsI32(r.keys)) \o WriteAll(r.keys)
      [] r.op \in KeyValueOps ->
           write_i32(r.id) \o write_u8(MAGIC_BYTE) \o ValueWrite(r.key) \o ValueWrite(r.value)
      [] r.op = "PutAll" ->
           write_i32(r.id) \o write_u8(MAGIC_BYTE) \o write_i32(LenAsI32(r.pairs))
             \o WritePairs(r.pairs)
      [] r.op = "ReplaceIfEquals" ->
           write_i32(r.id) \o write_u8(MAGIC_BYTE) \o ValueWrite(r.key) \o ValueWrite(r.old)
             \o ValueWrite(r.new)
      [] r.op \in NoPayloadOps ->
           write_i32(r.id) \o write_u8(MAGIC_BYTE)
      [] r.op = "GetSize" ->
           write_i32(r.id) \o write_u8(MAGIC_BYTE) \o write_i32(LenAsI32(r.modes))
             \o [i \in 1..Len(r.modes) |-> F(1, r.modes[i])]
      [] r.op = "QueryScan" ->
           write_i32(r.id) \o write_u8(1) \o write_null \o write_i32(r.pg_sz)
             \o write_i32(-1) \o write_bool(FALSE)
      [] r.op = "QueryScanSql" ->
           write_i32(r.id) \o write_u8(0)
             \o write_u8(TypeCodeString) \o write_string(r.table)
             \o write_u8(TypeCodeString) \o write_string(r.sql)
             \o QueryArgs(r)
             \o write_bool(FALSE) \o write_bool(FALSE) \o write_bool(FALSE)
             \o write_i32(r.pg_sz) \o write_i64(10000)
      [] r.op = "QueryScanSqlFields" ->
           write_i32(r.id) \o write_u8(0) \o write_null
             \o write_i32(r.pg_sz) \o write_i32(r.pg_sz)
             \o write_u8(TypeCodeString) \o write_string(r.sql)
             \o QueryArgs(r)
             \o write_i8(1)
             \o write_bool(FALSE) \o write_bool(FALSE) \o write_bool(FALSE)
             \o write_bool(FALSE) \o write_bool(FALSE) \o write_bool(FALSE)
             \o write_i64(10000) \o write_bool(FALSE)

\* impl WriteableReq for CacheReq: size
CacheReqSize(r) ==
    CASE r.op \in SingleKeyOps -> CACHE_ID_MAGIC_BYTE_SIZE + ValueSize(r.key)
      [] r.op \in BulkKeyOps -> CACHE_ID_MAGIC_BYTE_SIZE + 4 + SizeAll(r.keys)
      [] r.op \in KeyValueOps ->
           CACHE_ID_MAGIC_BYTE_SIZE + ValueSize(r.key) + ValueSize(r.value)
      [] r.op = "PutAll" -> CACHE_ID_MAGIC_BYTE_SIZE + 4 + SizePairs(r.pairs)
      [] r.op = "ReplaceIfEquals" ->
           CACHE_ID_MAGIC_BYTE_SIZE + ValueSize(r.key) + ValueSize(r.old) + ValueSize(r.new)
      [] r.op \in NoPayloadOps -> CACHE_ID_MAGIC_BYTE_SIZE
      [] r.op = "GetSize" -> CACHE_ID_MAGIC_BYTE_SIZE + 4 + Len(r.modes)
      [] r.op = "QueryScan" -> CACHE_ID_MAGIC_BYTE_SIZE + 1 + 4 + 4 + 1
      [] r.op = "QueryScanSql" ->
           CACHE_ID_MAGIC_BYTE_SIZE + 4 + Len(r.table) + 1 + 4 + Len(r.sql) + 1
             + 4 + 1 + 1 + 1 + 4 + 8
      [] r.op = "QueryScanSqlFields" ->
           CACHE_ID_MAGIC_BYTE_SIZE + 1 + 4 + 4 + 4 + Len(r.sql) + 1 + 4
             + 1 + 1 + 1 + 1 + 1 + 1 + 1 + 8 + 1

(***************************************************************************)
(* api/cache_config.rs: transaction and cache administration requests      *)
(***************************************************************************)
MAGIC_FLAG == 0

RECURSIVE JavaHash(_, _)
\* utils::string_to_java_hashcode: h = 31 * h + c over the string
JavaHash(h, str) == IF str = <<>> THEN h ELSE JavaHash(31 * h + Head(str), Tail(str))
string_to_java_hashcode(str) == JavaHash(0, str)

\* protocol::cache_config::get_cache_configuration_bytes(config): Ok(bytes)
get_cache_configuration_bytes(cfg) ==
    write_i32(cfg.num_backup) \o write_string_type_code(cfg.name)

\* CacheGetConfigReq::write(&self, writer): what the writer holds afterwards
CacheGetConfigReqWrite(name, writer) ==
    writer \o write_i32(string_to_java_hashcode(name)) \o write_u8(MAGIC_FLAG)

\* an id taken from the state of the writer instead of the name
CacheDestroyReqWriteSeq(name, writer) == writer \o write_i32(Len(writer))
\* CacheDestroyReq::write(&self, writer): what the writer holds afterwards
CacheDestroyReqWrite(name, writer) == writer \o write_i32(string_to_java_hashcode(name))

AdminReqWrite(r) ==
    CASE r.op = "TxnEndReq" -> write_i32(r.tx_id) \o write_bool(r.commit)
      [] r.op = "TxnStartReq" ->
           write_u8(0) \o write_u8(0) \o write_i64(10000) \o write_null
      [] r.op = "CacheGetNamesReq" -> <<>>
      [] r.op \in {"CacheCreateWithNameReq", "CacheGetOrCreateWithNameReq"} ->
           write_string_type_code(r.name)
      [] r.op \in {"CacheCreateWithConfigReq", "CacheGetOrCreateWithConfigReq"} ->
           get_cache_configuration_bytes(r.config)
      [] r.op = "CacheGetConfigReq" -> CacheGetConfigReqWrite(r.name, <<>>)
      [] r.op = "CacheDestroyReq" -> CacheDestroyReqWrite(r.name, <<>>)

\* a name request's size() without the type code byte
NameReqSizeNoTypeCode(name) == Len(name) + 4
\* CacheCreateWithNameReq::size, CacheGetOrCreateWithNameReq::size
NameReqSize(name) == Len(name) + 5

AdminReqSize(r) ==
    CASE r.op = "TxnEndReq" -> 4 + 1
      [] r.op = "TxnStartReq" -> 1 + 1 + 8 + 1
      [] r.op = "CacheGetNamesReq" -> 0
      [] r.op \in {"CacheCreateWithNameReq", "CacheGetOrCreateWithNameReq"} ->
           NameReqSize(r.name)
      [] r.op \in {"CacheCreateWithConfigReq", "CacheGetOrCreateWithConfigReq"} ->
           BytesOf(get_cache_configuration_bytes(r.config))
      [] r.op = "CacheGetConfigReq" -> 5
      [] r.op = "CacheDestroyReq" -> 4

(***************************************************************************)
(* Specification of the codecs: a request is drawn and encoded             *)
(***************************************************************************)
CacheIds == {string_to_java_hashcode(<<97>>)}
PageSizes == {1, 1024}
PeekModes == 0..3

KeyLists == UNION {[1..n -> Keys] : n \in 0..MaxKeys}
PairLists == UNION {[1..n -> Keys \X Values] : n \in 0..MaxKeys}
ModeLists == UNION {[1..n -> PeekModes] : n \in 0..MaxKeys}

CacheReqs ==
    {[op |-> o, id |-> i, key |-> k] : o \in SingleKeyOps, i \in CacheIds, k \in Keys}
    \cup {[op |-> o, id |-> i, keys |-> ks] : o \in BulkKeyOps, i \in CacheIds, ks \in KeyLists}
    \cup {[op |-> o, id |-> i, key |-> k, value |-> v] :
            o \in KeyValueOps, i \in CacheIds, k \in Keys, v \in Values}
    \cup {[op |-> "PutAll", id |-> i, pairs |-> ps] : i \in CacheIds, ps \in PairLists}
    \cup {[op |-> "ReplaceIfEquals", id |-> i, key |-> k, old |-> v, new |-> w] :
            i \in CacheIds, k \in Keys, v \in Values, w \in Values}
    \cup {[op |-> o, id |-> i] : o \in NoPayloadOps, i \in CacheIds}
    \cup {[op |-> "GetSize", id |-> i, modes |-> ms] : i \in CacheIds, ms \in ModeLists}
    \cup {[op |-> "QueryScan", id |-> i, pg_sz |-> p] : i \in CacheIds, p \in PageSizes}
    \cup {[op |-> "QueryScanSql", id |-> i, pg_sz |-> p, table |-> tb, sql |-> q] :
            i \in CacheIds, p \in PageSizes, tb \in Strings, q \in Strings}
    \cup {[op |-> "QueryScanSqlFields", id |-> i, pg_sz |-> p, sql |-> q] :
            i \in CacheIds, p \in PageSizes, q \in Strings}

Configs == {[name |-> nm, num_backup |-> b] : nm \in Strings, b \in {0, 1}}

AdminReqs ==
    {[op |-> "TxnEndReq", tx_id |-> x, commit |-> c] : x \in {1, 2}, c \in BOOLEAN}
    \cup {[op |-> "TxnStartReq"], [op |-> "CacheGetNamesReq"]}
    \cup {[op |-> o, name |-> nm] :
            o \in {"CacheCreateWithNameReq", "CacheGetOrCreateWithNameReq",
                   "CacheGetConfigReq", "CacheDestroyReq"}, nm \in Strings}
    \cup {[op |-> o, config |-> c] :
            o \in {"CacheCreateWithConfigReq", "CacheGetOrCreateWithConfigReq"},
            c \in Configs}

\* the list-valued requests, and list lengths around and beyond the i32 range:
\* 2^31 - 1, 2^31, 2^31 + 5, 2^32 and 2^33 - 1 elements
ListOps == BulkKeyOps \cup {"PutAll", "GetSize"}
ListLengths == {USize(0, I32Max), USize(1, 0), USize(1, 5), USize(2, 0), USize(3, I32Max)}
LongListReqs == {[op |-> o, id |-> i, len |-> n] : o \in ListOps, i \in CacheIds, n \in ListLengths}

\* what the BufStream of a connection holds when payload.write is called: the
\* header of this request, behind nothing or behind the header of a call that
\* failed before its flush
AddrOps == {"CacheGetConfigReq", "CacheDestroyReq"}
AddrHeader(op) == write_i32(HeaderLen(USize(0, IF op = "CacheGetConfigReq" THEN 5 ELSE 4)))
                    \o write_i16(IF op = "CacheGetConfigReq" THEN 1055 ELSE 1056)
                    \o write_i64(0)
Writers(op) == {AddrHeader(op), AddrHeader("CacheDestroyReq") \o AddrHeader(op)}

\* two requests by cache name, each built on a connection of its own
AddrReq == UNION {{[op |-> o, name |-> nm, writer |-> w] : nm \in Strings, w \in Writers(o)} :
                    o \in AddrOps}
AddrPairs == {[op |-> "pair", a |-> a, b |-> b] : a \in AddrReq, b \in AddrReq}

\* payload.size() around the ends of the range of the length field: 0, 1, 5,
\* 2^31 - 12, 2^31 - 11, 2^31 - 10, 2^31 - 1, 2^31, 2^32 - 6, 2^32, 2^32 + 5
\* and 2^33 - 1
HeaderSizes == {USize(0, 0), USize(0, 1), USize(0, 5), USize(0, I32Max - 11),
                USize(0, I32Max - 10), USize(0, I32Max - 9), USize(0, I32Max), USize(1, 0),
                USize(1, I32Max - 5), USize(2, 0), USize(2, 5), USize(3, I32Max)}

\* the arithmetic of the build: wrapping, or with overflow checks
Builds == {"wrapping", "checked"}
LengthReqs == {[op |-> "header", size |-> sz, build |-> b] : sz \in HeaderSizes, b \in Builds}

InitCodec ==
    /\ cn = NewConn
    /\ mutex = [holder |-> 0, poisoned |-> FALSE]
    /\ th = [t \in Threads |-> NoCall]
    /\ done = NoCall
    /\ wbuf = <<>>
    /\ wire = <<>>
    /\ inbound = <<>>
    /\ wlast = 0
    /\ rlast = 0
    /\ nextId = 0
    /\ srv = "up"
    /\ readFailed = FALSE
    /\ \E r \in CacheReqs \cup AdminReqs \cup LongListReqs \cup AddrPairs \cup LengthReqs :
         enc = [stage |-> "request",
                fam |-> IF r \in CacheReqs THEN "cache"
                        ELSE IF r \in AdminReqs THEN "admin"
                        ELSE IF r \in LongListReqs THEN "count"
                        ELSE IF r \in AddrPairs THEN "addr" ELSE "length",
                req |-> r, out |-> <<>>, size |-> 0]
    /\ frame = FrameOff
    /\ dec = DecOff
    /\ CacheOff

\* send_safe on a CacheReq: payload.size() for the header, then payload.write
EncodeCacheReq ==
    /\ enc.stage = "request" /\ enc.fam = "cache"
    /\ enc' = [enc EXCEPT !.stage = "encoded", !.out = CacheReqWrite(enc.req),
                          !.size = CacheReqSize(enc.req)]
    /\ UNCHANGED <<cn, mutex, th, done, wbuf, wire, inbound, wlast, rlast, nextId, srv,
                   readFailed, OtherVars>>

\* send_safe on a request of api/cache_config.rs
EncodeAdminReq ==
    /\ enc.stage = "request" /\ enc.fam = "admin"
    /\ enc' = [enc EXCEPT !.stage = "encoded", !.out = AdminReqWrite(enc.req),
                          !.size = AdminReqSize(enc.req)]
    /\ UNCHANGED <<cn, mutex, th, done, wbuf, wire, inbound, wlast, rlast, nextId, srv,
                   readFailed, OtherVars>>

\* CacheReq::write on a list of r.len elements, up to and including its count
\* field: the cache id, the flag byte and `len() as i32`
CacheReqWriteCount(r) == write_i32(r.id) \o write_u8(MAGIC_BYTE) \o write_i32(AsI32(r.len))

\* payload.write on a list-valued CacheReq whose list is too long to enumerate
EncodeLongList ==
    /\ enc.stage = "request" /\ enc.fam = "count"
    /\ enc' = [enc EXCEPT !.stage = "encoded", !.out = CacheReqWriteCount(enc.req)]
    /\ UNCHANGED <<cn, mutex, th, done, wbuf, wire, inbound, wlast, rlast, nextId, srv,
                   readFailed, OtherVars>>

\* payload.write of a CacheGetConfigReq or CacheDestroyReq into writer
AddrReqWrite(r) == IF r.op = "CacheGetConfigReq" THEN CacheGetConfigReqWrite(r.name, r.writer)
                                                 ELSE CacheDestroyReqWrite(r.name, r.writer)

\* the two connections each write their request
EncodeAddrPair ==
    /\ enc.stage = "request" /\ enc.fam = "addr"
    /\ enc' = [enc EXCEPT !.stage = "encoded",
                          !.out = <<AddrReqWrite(enc.req.a), AddrReqWrite(enc.req.b)>>]
    /\ UNCHANGED <<cn, mutex, th, done, wbuf, wire, inbound, wlast, rlast, nextId, srv,
                   readFailed, OtherVars>>

\* write_i32(writer, payload_len as i32 + REQ_HEADER_SIZE_BYTES)?: the length
\* field written, or nothing when the addition panics in a build with
\* overflow checks
LengthField(sz, build) ==
    IF build = "checked" /\ AddOverflows(AsI32(sz), REQ_HEADER_SIZE_BYTES)
      THEN <<>>
      ELSE write_i32(HeaderLen(sz))

\* write_req_header for a payload of enc.req.size bytes, up to its length field
EncodeLength ==
    /\ enc.stage = "request" /\ enc.fam = "length"
    /\ enc' = [enc EXCEPT !.stage = "encoded", !.out = LengthField(enc.req.size, enc.req.build)]
    /\ UNCHANGED <<cn, mutex, th, done, wbuf, wire, inbound, wlast, rlast, nextId, srv,
                   readFailed, OtherVars>>

NextCodec ==
    EncodeCacheReq \/ EncodeAdminReq \/ EncodeLongList \/ EncodeAddrPair \/ EncodeLength

SpecCodec == InitCodec /\ [][NextCodec]_vars

\* C4: for every CacheReq variant, size() is the number of bytes write emits.
C4_CacheReqSizeIsWritten ==
    enc.stage = "encoded" /\ enc.fam = "cache" => enc.size = BytesOf(enc.out)

\* a PutAll request with two pairs has been encoded and its size is its byte count
C4_Witness ==
    /\ enc.stage = "encoded" /\ enc.fam = "cache"
    /\ enc.req.op = "PutAll" /\ Len(enc.req.pairs) = 2 /\ enc.size = BytesOf(enc.out)

\* C5: for the transaction and cache administration requests, size() is the
\* number of bytes write emits.
C5_AdminReqSizeIsWritten ==
    enc.stage = "encoded" /\ enc.fam = "admin" => enc.size = BytesOf(enc.out)

\* a create-by-name request with a name of two bytes has been encoded
C5_Witness ==
    /\ enc.stage = "encoded" /\ enc.fam = "admin"
    /\ enc.req.op = "CacheCreateWithNameReq" /\ Len(enc.req.name) = 2
    /\ enc.size = 7 /\ BytesOf(enc.out) = 7

\* C21: no count field written in a request is negative, whatever the length
\* of the list passed, except the scan query's partition field, which is -1.
C21_CountsNonNegative ==
    enc.stage = "encoded" /\ enc.fam \in {"cache", "count"} =>
        /\ enc.req.op \in ListOps => enc.out[3].v >= 0
        /\ enc.req.op = "QueryScanSql" =>
             enc.out[7 + Len(enc.req.table) + Len(enc.req.sql)].v >= 0
        /\ enc.req.op = "QueryScanSqlFields" => enc.out[8 + Len(enc.req.sql)].v >= 0
        /\ enc.req.op = "QueryScan" => enc.out[5].v = -1

\* the fields a request wrote from its n-th on
FieldsFrom(out, n) == SubSeq(out, n, Len(out))

\* C31: whatever page size, table and statement are passed, QueryScanSql and
\* QueryScanSqlFields write the argument count 0 with the flags directly behind
\* it and end on the timeout 10000 (and the field-names flag); QueryScan writes
\* a null filter, the page size passed, partition -1 and local false.
C31_QueryFixedFields ==
    enc.stage = "encoded" /\ enc.fam = "cache" =>
        LET r == enc.req IN
        /\ r.op = "QueryScan" =>
             enc.out = <<F(4, r.id), F(1, 1), F(1, TypeCodeNull), F(4, r.pg_sz),
                         F(4, -1), F(1, 0)>>
        /\ r.op = "QueryScanSql" =>
             /\ SubSeq(enc.out, 1, 6 + Len(r.table) + Len(r.sql))
                  = write_i32(r.id) \o write_u8(0)
                      \o write_string_type_code(r.table) \o write_string_type_code(r.sql)
             /\ FieldsFrom(enc.out, 7 + Len(r.table) + Len(r.sql))
                  = <<F(4, 0), F(1, 0), F(1, 0), F(1, 0), F(4, r.pg_sz), F(8, 10000)>>
        /\ r.op = "QueryScanSqlFields" =>
             /\ SubSeq(enc.out, 1, 7 + Len(r.sql))
                  = <<F(4, r.id), F(1, 0), F(1, TypeCodeNull), F(4, r.pg_sz),
                      F(4, r.pg_sz)>> \o write_string_type_code(r.sql)
             /\ FieldsFrom(enc.out, 8 + Len(r.sql))
                  = <<F(4, 0), F(1, 1), F(1, 0), F(1, 0), F(1, 0), F(1, 0), F(1, 0),
                      F(1, 0), F(8, 10000), F(1, 0)>>

\* a statement of two bytes on a table of two bytes with page size 1024 was
\* encoded: the argument count is 0 and the last field is the timeout
C31_Witness ==
    /\ enc.stage = "encoded" /\ enc.fam = "cache" /\ enc.req.op = "QueryScanSql"
    /\ Len(enc.req.table) = 2 /\ Len(enc.req.sql) = 2 /\ enc.req.pg_sz = 1024
    /\ enc.out[11] = F(4, 0) /\ enc.out[Len(enc.out)] = F(8, 10000)
    /\ Len(enc.out) = 16

\* the cache id a request wrote: the four bytes behind what the writer held
IdWritten(r, out) == out[Len(r.writer) + 1]

\* C22: the cache id CacheGetConfigReq and CacheDestroyReq write is a function
\* of the cache name alone: it is the hash of the name whatever the writer
\* held, so two requests for one name on two connections carry the same id.
C22_CacheIdPureInName ==
    enc.stage = "encoded" /\ enc.fam = "addr" =>
        /\ \A i \in 1..2 :
             LET r == IF i = 1 THEN enc.req.a ELSE enc.req.b
             IN  /\ Len(enc.out[i]) > Len(r.writer)
                 /\ SubSeq(enc.out[i], 1, Len(r.writer)) = r.writer
                 /\ IdWritten(r, enc.out[i]) = F(4, string_to_java_hashcode(r.name))
        /\ enc.req.a.name = enc.req.b.name =>
             IdWritten(enc.req.a, enc.out[1]) = IdWritten(enc.req.b, enc.out[2])

\* a get-configuration and a destroy request for the name "ab" were written
\* on connections whose writers held different bytes, and carry the same id
C22_Witness ==
    /\ enc.stage = "encoded" /\ enc.fam = "addr"
    /\ enc.req.a.op = "CacheGetConfigReq" /\ enc.req.b.op = "CacheDestroyReq"
    /\ enc.req.a.name = <<97, 98>> /\ enc.req.b.name = <<97, 98>>
    /\ Len(enc.req.a.writer) # Len(enc.req.b.writer)
    /\ IdWritten(enc.req.a, enc.out[1]) = IdWritten(enc.req.b, enc.out[2])
    /\ IdWritten(enc.req.a, enc.out[1]).v = 97 * 31 + 98

\* payload + 10 as a usize
PlusHeader(sz) ==
    IF sz.lo > I32Max - REQ_HEADER_SIZE_BYTES
      THEN USize(sz.hi + 1, (sz.lo + I32Min) + REQ_HEADER_SIZE_BYTES)
      ELSE USize(sz.hi, sz.lo + REQ_HEADER_SIZE_BYTES)

\* C28: the length field is payload + 10, and positive, for every payload size
\* from 0 to 2^31 - 11; for a larger payload the conversion or the addition
\* overflows, and the length written, if any, is not payload + 10.
C28_HeaderLenBoundary ==
    enc.stage = "encoded" /\ enc.fam = "length" =>
        LET sz == enc.req.size
            written == enc.out # <<>>
            len == enc.out[1].v
        IN  IF sz.hi = 0 /\ sz.lo <= I32Max - 10
              THEN /\ written /\ enc.out[1].w = 4
                   /\ len = sz.lo + 10 /\ len > 0
                   /\ USize(0, len) = PlusHeader(sz)
              ELSE /\ sz.hi > 0 \/ AddOverflows(AsI32(sz), REQ_HEADER_SIZE_BYTES)
                   /\ written => len < 0 \/ USize(0, len) # PlusHeader(sz)

\* the length of a payload of 2^31 - 11 bytes has been written as 2^31 - 1, or
\* that of a payload of 2^31 - 10 bytes as -2^31
C28_Witness ==
    /\ enc.stage = "encoded" /\ enc.fam = "length" /\ enc.out # <<>>
    /\ \/ enc.req.size = USize(0, I32Max - 10) /\ enc.out[1].v = I32Max
       \/ enc.req.size = USize(0, I32Max - 9) /\ enc.out[1].v = I32Min

(***************************************************************************)
(* Cache: each public method builds one CacheReq and hands it, with its    *)
(* op code, to send, send_and_read or send_and_read_dyn of the Connection. *)
(***************************************************************************)
\* api::OpCode as i16: the operation codes of the binary client protocol
OpCodeAsI16(op) ==
    CASE op = "CacheGet" -> 1000
      [] op = "CachePut" -> 1001
      [] op = "CachePutIfAbsent" -> 1002
      [] op = "CacheGetAll" -> 1003
      [] op = "CachePutAll" -> 1004
      [] op = "CacheGetAndPut" -> 1005
      [] op = "CacheGetAndReplace" -> 1006
      [] op = "CacheGetAndRemove" -> 1007
      [] op = "CacheGetAndPutIfAbsent" -> 1008
      [] op = "CacheReplace" -> 1009
      [] op = "CacheReplaceIfEquals" -> 1010
      [] op = "CacheContainsKey" -> 1011
      [] op = "CacheContainsKeys" -> 1012
      [] op = "CacheClear" -> 1013
      [] op = "CacheClearKey" -> 1014
      [] op = "CacheClearKeys" -> 1015
      [] op = "CacheRemoveKey" -> 1016
      [] op = "CacheRemoveIfEquals" -> 1017
      [] op = "CacheRemoveKeys" -> 1018
      [] op = "CacheRemoveAll" -> 1019
      [] op = "CacheGetSize" -> 1020
      [] op = "QueryScan" -> 2000
      [] op = "QuerySql" -> 2002

\* the methods of Cache by the arguments they take
KeyMethods == {"get", "contains_key", "get_and_remove", "clear_key", "remove_key"}
KeysMethods == {"get_all", "contains_keys", "clear_keys", "remove_keys"}
KeyValueMethods == {"put", "get_and_put", "get_and_replace", "put_if_absent",
                    "get_and_put_if_absent", "replace", "remove_if_equals"}
NoArgMethods == {"clear", "remove_all", "get_size"}
ScanMethods == {"query_scan", "query_scan_dyn"}

\* the OpCode each method passes to the Connection
MethodOpCode(m) ==
    CASE m = "query_scan" -> "QueryScan"
      [] m = "query_scan_sql" -> "QuerySql"
      [] m = "query_scan_dyn" -> "QueryScan"
      [] m = "get" -> "CacheGet"
      [] m = "get_all" -> "CacheGetAll"
      [] m = "put" -> "CachePut"
      [] m = "put_all" -> "CachePutAll"
      [] m = "contains_key" -> "CacheContainsKey"
      [] m = "contains_keys" -> "CacheContainsKeys"
      [] m = "get_and_put" -> "CacheGetAndPut"
      [] m = "get_and_replace" -> "CacheGetAndReplace"
      [] m = "get_and_remove" -> "CacheGetAndRemove"
      [] m = "put_if_absent" -> "CachePutIfAbsent"
      [] m = "get_and_put_if_absent" -> "CacheGetAndPutIfAbsent"
      [] m = "replace" -> "CacheReplace"
      [] m = "replace_if_equals" -> "CacheReplaceIfEquals"
      [] m = "clear" -> "CacheClear"
      [] m = "clear_key" -> "CacheClearKey"
      [] m = "clear_keys" -> "CacheClearKeys"
      [] m = "remove_key" -> "CacheRemoveKey"
      [] m = "remove_if_equals" -> "CacheRemoveIfEquals"
      [] m \in {"get_size", "get_size_peek_mode", "get_size_peek_modes"} -> "CacheGetSize"
      [] m = "remove_keys" -> "CacheRemoveKeys"
      [] m = "remove_all" -> "CacheRemoveAll"

\* the CacheReq variant of the methods that take a key, keys, or a key and a value
MethodVariant(m) ==
    CASE m = "get" -> "Get"
      [] m = "contains_key" -> "ContainsKey"
      [] m = "get_and_remove" -> "GetAndRemove"
      [] m = "clear_key" -> "ClearKey"
      [] m = "remove_key" -> "RemoveKey"
      [] m = "get_all" -> "GetAll"
      [] m = "contains_keys" -> "ContainsKeys"
      [] m = "clear_keys" -> "ClearKeys"
      [] m = "remove_keys" -> "RemoveKeys"
      [] m = "put" -> "Put"
      [] m = "get_and_put" -> "GetAndPut"
      [] m = "get_and_replace" -> "GetAndReplace"
      [] m = "put_if_absent" -> "PutIfAbsent"
      [] m = "get_and_put_if_absent" -> "GetAndPutIfAbsent"
      [] m = "replace" -> "Replace"
      [] m = "remove_if_equals" -> "RemoveIfEquals"
      [] m = "clear" -> "Clear"
      [] m = "remove_all" -> "RemoveAll"

\* the CacheReq a method call c builds on the cache with this id
MethodReq(id, c) ==
    CASE c.m \in KeyMethods -> [op |-> MethodVariant(c.m), id |-> id, key |-> c.key]
      [] c.m \in KeysMethods -> [op |-> MethodVariant(c.m), id |-> id, keys |-> c.keys]
      [] c.m \in KeyValueMethods ->
           [op |-> MethodVariant(c.m), id |-> id, key |-> c.key, value |-> c.value]
      [] c.m = "put_all" -> [op |-> "PutAll", id |-> id, pairs |-> c.pairs]
      [] c.m = "replace_if_equals" ->
           [op |-> "ReplaceIfEquals", id |-> id, key |-> c.key, old |-> c.old, new |-> c.new]
      [] c.m \in {"clear", "remove_all"} -> [op |-> MethodVariant(c.m), id |-> id]
      [] c.m = "get_size" -> [op |-> "GetSize", id |-> id, modes |-> <<>>]
      [] c.m = "get_size_peek_mode" -> [op |-> "GetSize", id |-> id, modes |-> <<c.mode>>]
      [] c.m = "get_size_peek_modes" -> [op |-> "GetSize", id |-> id, modes |-> c.modes]
      [] c.m \in ScanMethods -> [op |-> "QueryScan", id |-> id, pg_sz |-> c.page_size]
      [] c.m = "query_scan_sql" ->
           [op |-> "QueryScanSql", id |-> id, pg_sz |-> c.page_size,
            table |-> c.type_name, sql |-> c.sql]

\* the calls drawn
MethodCalls ==
    {[m |-> m, key |-> k] : m \in KeyMethods, k \in Keys}
    \cup {[m |-> m, keys |-> ks] : m \in KeysMethods, ks \in KeyLists}
    \cup {[m |-> m, key |-> k, value |-> v] : m \in KeyValueMethods, k \in Keys, v \in Values}
    \cup {[m |-> "put_all", pairs |-> ps] : ps \in PairLists}
    \cup {[m |-> "replace_if_equals", key |-> k, old |-> v, new |-> w] :
            k \in Keys, v \in Values, w \in Values}
    \cup {[m |-> m] : m \in NoArgMethods}
    \cup {[m |-> "get_size_peek_mode", mode |-> md] : md \in PeekModes}
    \cup {[m |-> "get_size_peek_modes", modes |-> ms] : ms \in ModeLists}
    \cup {[m |-> m, page_size |-> p] : m \in ScanMethods, p \in PageSizes}
    \cup {[m |-> "query_scan_sql", page_size |-> p, type_name |-> tb, sql |-> q] :
            p \in PageSizes, tb \in Strings, q \in Strings}

\* Connection::write_req_header with a request id other than zero
write_req_header_id1(payload_len, op_code) ==
    write_i32(HeaderLen(USize(0, payload_len))) \o write_i16(op_code) \o write_i64(1)

\* Connection::write_req_header(writer, payload_len, op_code)
write_req_header(payload_len, op_code) ==
    write_i32(HeaderLen(USize(0, payload_len))) \o write_i16(op_code) \o write_i64(0)

InitFrame ==
    /\ ConnInit
    /\ enc = EncOff
    /\ dec = DecOff
    /\ CacheOff
    /\ \E id \in CacheIds, c \in MethodCalls :
         frame = [stage |-> "call", id |-> id, call |-> c, hdr |-> <<>>, body |-> <<>>]

\* a Cache method up to the flush of send_safe: the header with payload.size()
\* and the method's op code, then payload.write
SendFrame ==
    /\ frame.stage = "call"
    /\ LET req == MethodReq(frame.id, frame.call) IN
         frame' = [frame EXCEPT
                     !.stage = "sent",
                     !.hdr = write_req_header(CacheReqSize(req),
                                              OpCodeAsI16(MethodOpCode(frame.call.m))),
                     !.body = CacheReqWrite(req)]
    /\ UNCHANGED <<ConnVars, enc, dec, CacheVars>>

\* the frame is on the stream
FrameFlushed ==
    /\ frame.stage = "sent"
    /\ frame' = [frame EXCEPT !.stage = "flushed"]
    /\ UNCHANGED <<ConnVars, enc, dec, CacheVars>>

NextFrame == SendFrame \/ FrameFlushed

SpecFrame == InitFrame /\ [][NextFrame]_vars

\* what the server reads back from a list field: n encoded values, or n mode bytes
ParseValue(fs) ==
    IF fs[1].v = TypeCodeLong
      THEN [val |-> Long(fs[2].v), rest |-> SubSeq(fs, 3, Len(fs))]
      ELSE LET n == fs[2].v IN
           [val |-> Str([i \in 1..n |-> fs[2 + i].v]), rest |-> SubSeq(fs, 3 + n, Len(fs))]

RECURSIVE ParseValues(_, _)
ParseValues(fs, n) ==
    IF n = 0 \/ fs = <<>> THEN [vals |-> <<>>, rest |-> fs]
    ELSE LET one == ParseValue(fs)
             more == ParseValues(one.rest, n - 1)
         IN [vals |-> <<one.val>> \o more.vals, rest |-> more.rest]

RECURSIVE Flatten(_)
\* the keys and values of a list of pairs, in order
Flatten(ps) == IF ps = <<>> THEN <<>> ELSE <<Head(ps)[1], Head(ps)[2]>> \o Flatten(Tail(ps))

ListMethods == KeysMethods \cup {"put_all", "get_size_peek_modes"}

\* the list-valued field of a call, and the values the server reads for it
ListOf(c) == CASE c.m \in KeysMethods -> c.keys
               [] c.m = "put_all" -> c.pairs
               [] c.m = "get_size_peek_modes" -> c.modes

ListRead(c, fs) ==
    CASE c.m \in KeysMethods -> ParseValues(fs, Len(c.keys))
      [] c.m = "put_all" -> ParseValues(fs, 2 * Len(c.pairs))
      [] c.m = "get_size_peek_modes" ->
           [vals |-> [i \in 1..Len(fs) |-> fs[i].v], rest |-> <<>>]

ListElements(c) == IF c.m = "put_all" THEN Flatten(c.pairs) ELSE ListOf(c)

C16_FrameLayout ==
    frame.stage # "call" =>
        /\ Len(frame.hdr) = 3
        /\ frame.hdr[1] = F(4, BytesOf(frame.body) + REQ_HEADER_SIZE_BYTES)
        /\ frame.hdr[2] = F(2, OpCodeAsI16(MethodOpCode(frame.call.m)))
        /\ frame.hdr[3] = F(8, 0)
        /\ frame.body = CacheReqWrite(MethodReq(frame.id, frame.call))

\* the frame of a replace_if_equals has been written
C16_Witness ==
    /\ frame.stage = "flushed" /\ frame.call.m = "replace_if_equals"
    /\ frame.hdr[2].v = 1010 /\ frame.hdr[3].v = 0

\* the methods whose request has the shared header of cache id and flag byte
SharedHeaderMethods ==
    KeyMethods \cup KeysMethods \cup KeyValueMethods
      \cup {"put_all", "replace_if_equals", "clear", "remove_all", "get_size",
            "get_size_peek_mode", "get_size_peek_modes"}

\* C20: single-key, bulk-key, key+value, bulk-pairs, compare-and-swap,
\* zero-payload and size requests start with the handle's 4-byte cache id and
\* one flag byte, and the flag byte is 0 in all of them.
C20_CacheIdAndFlag ==
    frame.stage # "call" /\ frame.call.m \in SharedHeaderMethods =>
        /\ Len(frame.body) >= 2
        /\ frame.body[1] = F(4, frame.id)
        /\ frame.body[2] = F(1, 0)

\* a size request or a zero-payload request has been written, with its flag byte
C20_Witness ==
    /\ frame.stage = "flushed" /\ frame.call.m \in {"get_size", "clear"}
    /\ frame.body[2] = F(1, 0)

(***************************************************************************)
(* Response decoding.  A response body is a sequence of bytes; a reader    *)
(* gives back its value and the bytes it left, or fails.                   *)
(***************************************************************************)
RECURSIVE LE(_, _)
\* the w bytes of n, least significant first
LE(n, w) == IF w = 0 THEN <<>> ELSE <<n % 256>> \o LE(n \div 256, w - 1)

RECURSIVE FromLE(_)
FromLE(bs) == IF bs = <<>> THEN 0 ELSE Head(bs) + 256 * FromLE(Tail(bs))

RECURSIVE ToBytes(_)
\* the bytes of a sequence of fields
ToBytes(fs) == IF fs = <<>> THEN <<>> ELSE LE(Head(fs).v, Head(fs).w) \o ToBytes(Tail(fs))

\* the outcome of a read: Ok(v) with the bytes left, or Err
Rd(ok, v, rest) == [ok |-> ok, v |-> v, rest |-> rest]
RdErr == Rd(FALSE, 0, <<>>)

RECURSIVE FromLESigned(_)
\* the two's complement number of the bytes bs, least significant first
FromLESigned(bs) ==
    IF Len(bs) = 1 THEN (IF Head(bs) >= 128 THEN Head(bs) - 256 ELSE Head(bs))
    ELSE Head(bs) + 256 * FromLESigned(Tail(bs))

\* crate::protocol readers: read_exact of w bytes, little endian
read_int(s, w) == IF Len(s) < w THEN RdErr
                  ELSE Rd(TRUE, FromLE(SubSeq(s, 1, w)), SubSeq(s, w + 1, Len(s)))
read_signed(s, w) == IF Len(s) < w THEN RdErr
                     ELSE Rd(TRUE, FromLESigned(SubSeq(s, 1, w)), SubSeq(s, w + 1, Len(s)))
read_u8(s) == read_int(s, 1)
read_i32(s) == read_signed(s, 4)
read_i64(s) == read_signed(s, 8)
read_bool(s) == IF s = <<>> THEN RdErr ELSE Rd(TRUE, Head(s) # 0, Tail(s))

\* Option::None of a decoded value
None == [t |-> "None", n |-> 0, s |-> <<>>]

\* ReadableType::read for T = i64 or String: None for the null marker, Some
\* for T's own type code, an error for any other type code
ReadValue(T, s) ==
    LET code == read_u8(s) IN
    IF ~code.ok THEN RdErr
    ELSE IF code.v = TypeCodeNull THEN Rd(TRUE, None, code.rest)
    ELSE IF T = "Long" /\ code.v = TypeCodeLong
      THEN LET n == read_i64(code.rest) IN
           IF n.ok THEN Rd(TRUE, Long(n.v), n.rest) ELSE RdErr
    ELSE IF T = "String" /\ code.v = TypeCodeString
      THEN LET len == read_i32(code.rest) IN
           IF ~len.ok \/ Len(len.rest) < len.v THEN RdErr
           ELSE Rd(TRUE, Str(SubSeq(len.rest, 1, len.v)),
                   SubSeq(len.rest, len.v + 1, Len(len.rest)))
    ELSE RdErr

\* what a caller gets: Ok(val) or Err
OkVal(v) == [ok |-> TRUE, val |-> v]
ErrVal == [ok |-> FALSE, val |-> <<>>]

\* the `?` on an element inside a decoding loop: the elements decoded so far
\* are dropped with the Vec
ElementErrPartial(acc) == Rd(TRUE, acc, <<>>)
ElementErr(acc) == RdErr

\* a negative count taken for one element
IterationsOne(count) == IF count < 0 THEN 1 ELSE count
\* the iterations of `for _ in 0..count`: none when count is not positive
Iterations(count) == IF count < 0 THEN 0 ELSE count

RECURSIVE ReadPairs(_, _, _, _, _)
\* for _ in 0..count { let key = K::read(reader)?; let val = V::read(reader)?;
\*                     pairs.push((key, val)); }
ReadPairs(K, V, s, count, pairs) ==
    IF count <= 0 THEN Rd(TRUE, pairs, s)
    ELSE LET key == ReadValue(K, s) IN
         IF ~key.ok THEN ElementErr(pairs)
         ELSE LET val == ReadValue(V, key.rest) IN
              IF ~val.ok THEN ElementErr(pairs)
              ELSE ReadPairs(K, V, val.rest, count - 1, Append(pairs, <<key.v, val.v>>))

\* CachePairsResp::read
CachePairsResp(K, V, s) ==
    LET count == read_i32(s) IN
    IF ~count.ok THEN RdErr ELSE ReadPairs(K, V, count.rest, Iterations(count.v), <<>>)

\* QueryScanResp::read: the more flag is read and not kept
QueryScanResp(K, V, s) ==
    LET cursor_id == read_i64(s) IN
    IF ~cursor_id.ok THEN RdErr
    ELSE LET count == read_i32(cursor_id.rest) IN
         IF ~count.ok THEN RdErr
         ELSE LET pairs == ReadPairs(K, V, count.rest, Iterations(count.v), <<>>) IN
              IF ~pairs.ok THEN pairs
              ELSE LET more == read_bool(pairs.rest) IN
                   IF ~more.ok THEN RdErr ELSE Rd(TRUE, pairs.v, more.rest)

\* a null marker read as the empty name
NameOrEmpty(n) == IF n.ok /\ n.v = None THEN Rd(TRUE, Str(<<>>), n.rest) ELSE n
\* match String::read(reader)? { None => return Err(Error::from("NULL is not
\* expected")), Some(n) => n }
NameOf(n) == IF n.ok /\ n.v = None THEN RdErr ELSE n

RECURSIVE ReadNames(_, _, _)
\* for _ in 0..count { match String::read(reader)? { None => return Err(..),
\*                                                   Some(n) => names.push(n) } }
ReadNames(s, count, names) ==
    IF count <= 0 THEN Rd(TRUE, names, s)
    ELSE LET n == NameOf(ReadValue("String", s)) IN
         IF ~n.ok THEN ElementErr(names)
         ELSE ReadNames(n.rest, count - 1, Append(names, n.v))

\* CacheGetNamesResp::read
CacheGetNamesResp(s) ==
    LET count == read_i32(s) IN
    IF ~count.ok THEN RdErr ELSE ReadNames(count.rest, Iterations(count.v), <<>>)

\* Result<T>: what send_and_read(..).map(|resp| resp.val) gives the caller
Mapped(r) == IF r.ok THEN OkVal(r.v) ELSE ErrVal

\* Cache::get_all, Cache::query_scan and Ignite's cache names on a success response
get_all(s) == Mapped(CachePairsResp("Long", "String", s))
query_scan(s) == Mapped(QueryScanResp("Long", "String", s))
get_cache_names(s) == Mapped(CacheGetNamesResp(s))

\* the cell `more` of query_scan_dyn: None, or Some(flag)
NoneMore == [some |-> FALSE, v |-> FALSE]
SomeMore(b) == [some |-> TRUE, v |-> b]

\* what a run of query_scan_dyn has done: the result, the error if any, the
\* bytes left on the stream, the runs of the closure, the calls of the
\* consumer, the count it was given and the cell
Dyn(ok, err, rest, runs, calls, count, cell) ==
    [ok |-> ok, err |-> err, more |-> cell.v, rest |-> rest, runs |-> runs,
     calls |-> calls, count |-> count, cell |-> cell]

\* the closure query_scan_dyn passes to send_and_read_dyn: it reads the cursor
\* id and the count, the consumer cb reads cb.n bytes and returns Ok or Err,
\* then the closure reads the more flag into the cell
ScanDynClosure(s, cb) ==
    LET cursor_id == read_i64(s) IN
    IF ~cursor_id.ok THEN Dyn(FALSE, "io", <<>>, 1, 0, 0, NoneMore)
    ELSE LET count == read_i32(cursor_id.rest) IN
         IF ~count.ok THEN Dyn(FALSE, "io", <<>>, 1, 0, 0, NoneMore)
         ELSE IF Len(count.rest) < cb.n THEN Dyn(FALSE, "io", <<>>, 1, 1, count.v, NoneMore)
         ELSE IF ~cb.ok THEN Dyn(FALSE, "consumer", <<>>, 1, 1, count.v, NoneMore)
         ELSE LET more == read_bool(SubSeq(count.rest, cb.n + 1, Len(count.rest))) IN
              IF ~more.ok THEN Dyn(FALSE, "io", <<>>, 1, 1, count.v, NoneMore)
              ELSE Dyn(TRUE, "", more.rest, 1, 1, count.v, SomeMore(more.v))

\* a send_and_read_dyn that returns Ok(()) on a success response without
\* calling cb
send_and_read_dyn_idle(flag, s, cb) ==
    IF flag = "Failure" THEN Dyn(FALSE, "err_msg", <<>>, 0, 0, 0, NoneMore)
    ELSE Dyn(TRUE, "", s, 0, 0, 0, NoneMore)

\* Connection::send_and_read_dyn behind the lock and the frame: send_safe?
\* returns the error of a failure response, cb(&mut Box::new(buf))? runs the
\* closure on a success response
send_and_read_dyn(flag, s, cb) ==
    IF flag = "Failure" THEN Dyn(FALSE, "err_msg", <<>>, 0, 0, 0, NoneMore)
    ELSE ScanDynClosure(s, cb)

\* Cache::query_scan_dyn: the `?` on send_and_read_dyn, then
\* more.lock().unwrap().ok_or(Error::from("Callback not invoked!"))?
query_scan_dyn(flag, s, cb) ==
    LET r == send_and_read_dyn(flag, s, cb) IN
    IF ~r.ok THEN r
    ELSE IF ~r.cell.some THEN [r EXCEPT !.ok = FALSE, !.err = "Callback not invoked!"]
    ELSE r

(***************************************************************************)
(* cache.rs: the configuration enums and their TryFrom                     *)
(***************************************************************************)
EnumTypes == {"AtomicityMode", "CacheMode", "PartitionLossPolicy", "RebalanceMode",
              "WriteSynchronizationMode", "IndexType"}

\* the declared variants, in the order of their discriminants 0, 1, 2, ...
Variants(ty) ==
    CASE ty = "AtomicityMode" -> <<"Transactional", "Atomic">>
      [] ty = "CacheMode" -> <<"Local", "Replicated", "Partitioned">>
      [] ty = "PartitionLossPolicy" ->
           <<"ReadOnlySafe", "ReadOnlyAll", "ReadWriteSafe", "ReadWriteAll", "Ignore">>
      [] ty = "RebalanceMode" -> <<"Sync", "Async", "None">>
      [] ty = "WriteSynchronizationMode" -> <<"FullSync", "FullAsync", "PrimarySync">>
      [] ty = "IndexType" -> <<"Sorted", "Fulltext", "GeoSpatial">>

\* `variant as i32`, `variant as u8`
Discriminant(ty, v) == (CHOOSE i \in 1..Len(Variants(ty)) : Variants(ty)[i] = v) - 1

TryFromAtomicityMode(value) ==
    CASE value = 0 -> OkVal("Transactional")
      [] value = 1 -> OkVal("Atomic")
      [] OTHER -> ErrVal

TryFromCacheMode(value) ==
    CASE value = 0 -> OkVal("Local")
      [] value = 1 -> OkVal("Replicated")
      [] value = 2 -> OkVal("Partitioned")
      [] OTHER -> ErrVal

TryFromPartitionLossPolicy(value) ==
    CASE value = 0 -> OkVal("ReadOnlySafe")
      [] value = 1 -> OkVal("ReadOnlyAll")
      [] value = 2 -> OkVal("ReadWriteSafe")
      [] value = 3 -> OkVal("ReadWriteAll")
      [] value = 4 -> OkVal("Ignore")
      [] OTHER -> ErrVal

TryFromRebalanceMode(value) ==
    CASE value = 0 -> OkVal("Sync")
      [] value = 1 -> OkVal("Async")
      [] value = 2 -> OkVal("None")
      [] OTHER -> ErrVal

TryFromWriteSynchronizationMode(value) ==
    CASE value = 0 -> OkVal("FullSync")
      [] value = 1 -> OkVal("FullAsync")
      [] value = 2 -> OkVal("PrimarySync")
      [] OTHER -> ErrVal

\* an IndexType decoder that falls back to a variant
TryFromIndexTypeDefault(value) ==
    CASE value = 0 -> OkVal("Sorted")
      [] value = 1 -> OkVal("Fulltext")
      [] OTHER -> OkVal("GeoSpatial")

TryFromIndexType(value) ==
    CASE value = 0 -> OkVal("Sorted")
      [] value = 1 -> OkVal("Fulltext")
      [] value = 2 -> OkVal("GeoSpatial")
      [] OTHER -> ErrVal

TryFrom(ty, value) ==
    CASE ty = "AtomicityMode" -> TryFromAtomicityMode(value)
      [] ty = "CacheMode" -> TryFromCacheMode(value)
      [] ty = "PartitionLossPolicy" -> TryFromPartitionLossPolicy(value)
      [] ty = "RebalanceMode" -> TryFromRebalanceMode(value)
      [] ty = "WriteSynchronizationMode" -> TryFromWriteSynchronizationMode(value)
      [] ty = "IndexType" -> TryFromIndexType(value)

(***************************************************************************)
(* Specification of the decoders: a success response, or an integer to     *)
(* convert, is drawn and decoded.  The cache is a Cache<i64, String>.      *)
(***************************************************************************)
\* what the server may send as a key, a value and a cache name: the third of
\* each is of a type the reader does not expect
RespKeys == {Long(1), None, Str(<<97>>)}
RespValues == {Str(<<97>>), None, Long(7)}
RespNames == {Str(<<97>>), Str(<<>>), Long(7), None}
ScanPairs == {Long(1), Long(2)} \X {Str(<<97>>), None}

\* the server writes an element: the null marker or the typed value
ElemWrite(x) == IF x = None THEN write_null ELSE ValueWrite(x)

RECURSIVE ElemsWrite(_)
ElemsWrite(xs) == IF xs = <<>> THEN <<>> ELSE ElemWrite(Head(xs)) \o ElemsWrite(Tail(xs))

\* the bodies of the bulk responses
PairsBody(page) == ToBytes(write_i32(Len(page.elems)) \o ElemsWrite(Flatten(page.elems)))
ScanBody(page) ==
    ToBytes(write_i64(1) \o write_i32(Len(page.elems)) \o ElemsWrite(Flatten(page.elems))
              \o write_bool(page.more))
NamesBody(page) == ToBytes(write_i32(Len(page.elems)) \o ElemsWrite(page.elems))

\* the integers given to try_from
EnumInputs == {I32Min, -1, 0, 1, 2, 3, 4, 5, 255, 256, I32Max}
U8Inputs == {0, 1, 2, 3, 4, 5, 255}

Pages(elements) ==
    {[elems |-> es, more |-> m] : es \in UNION {[1..n -> elements] : n \in 0..MaxKeys},
                                  m \in BOOLEAN}

NoCb == [n |-> 0, ok |-> TRUE]

\* a response whose count field is drawn apart from its elements: negative,
\* or the number of the elements to decode
CountedPairs == {Long(1), None} \X {Str(<<97>>), None}
CountedPages ==
    UNION {{[resp |-> r, count |-> c, elems |-> pg.elems, more |-> pg.more] :
              r \in {"CachePairsResp", "QueryScanResp"},
              c \in {I32Min, -1} \cup (0..Len(pg.elems))} : pg \in Pages(CountedPairs)}

\* the bytes behind the count field, and the body
CountedTail(page, from) ==
    ToBytes(ElemsWrite(Flatten(SubSeq(page.elems, from, Len(page.elems))))
              \o (IF page.resp = "QueryScanResp" THEN write_bool(page.more) ELSE <<>>))
CountedBody(page) ==
    ToBytes((IF page.resp = "QueryScanResp" THEN write_i64(1) ELSE <<>>)
              \o write_i32(page.count)) \o CountedTail(page, 1)

Responses ==
    {[stage |-> "response", kind |-> "pairs", page |-> pg, in |-> PairsBody(pg),
      cb |-> NoCb, out |-> ErrVal] : pg \in {q \in Pages(RespKeys \X RespValues) : ~q.more}}
    \cup {[stage |-> "response", kind |-> "scan", page |-> pg, in |-> ScanBody(pg),
           cb |-> NoCb, out |-> ErrVal] : pg \in Pages(RespKeys \X RespValues)}
    \cup {[stage |-> "response", kind |-> "names", page |-> pg, in |-> NamesBody(pg),
           cb |-> NoCb, out |-> ErrVal] : pg \in {q \in Pages(RespNames) : ~q.more}}
    \cup UNION {{[stage |-> "response", kind |-> "scan_dyn", page |-> pg, flag |-> fl,
                  in |-> IF fl = "Success" THEN ScanBody(pg) ELSE <<>>,
                  cb |-> [n |-> n, ok |-> ok], out |-> ErrVal] :
                    n \in 0..(Len(ScanBody(pg)) - 12), ok \in BOOLEAN,
                    fl \in {"Success", "Failure"}} : pg \in Pages(ScanPairs)}
    \cup {[stage |-> "response", kind |-> "read", page |-> pg, in |-> CountedBody(pg),
           cb |-> NoCb, out |-> ErrVal] : pg \in CountedPages}
    \cup {[stage |-> "response", kind |-> "enum", page |-> [ty |-> ty, value |-> v],
           in |-> <<>>, cb |-> NoCb, out |-> ErrVal] :
             ty \in EnumTypes \ {"IndexType"}, v \in EnumInputs}
    \cup {[stage |-> "response", kind |-> "enum", page |-> [ty |-> "IndexType", value |-> v],
           in |-> <<>>, cb |-> NoCb, out |-> ErrVal] : v \in U8Inputs}

InitDecode ==
    /\ ConnInit
    /\ enc = EncOff
    /\ frame = FrameOff
    /\ CacheOff
    /\ dec \in Responses

Decoded(out) ==
    /\ dec' = [dec EXCEPT !.stage = "decoded", !.out = out]
    /\ UNCHANGED <<ConnVars, enc, frame, CacheVars>>

\* Cache::get_all: T::read of send_and_read_safe with T = CachePairsResp
DecodePairs == dec.stage = "response" /\ dec.kind = "pairs" /\ Decoded(get_all(dec.in))

\* Cache::query_scan
DecodeScan == dec.stage = "response" /\ dec.kind = "scan" /\ Decoded(query_scan(dec.in))

\* T::read with T = CacheGetNamesResp
DecodeNames == dec.stage = "response" /\ dec.kind = "names" /\ Decoded(get_cache_names(dec.in))

\* Cache::query_scan_dyn with a consumer
ScanDyn ==
    dec.stage = "response" /\ dec.kind = "scan_dyn" /\ Decoded(query_scan_dyn(dec.flag, dec.in, dec.cb))

\* T::read(buf) with T = CachePairsResp or QueryScanResp: the value and the
\* bytes left on the stream
ReadCounted ==
    /\ dec.stage = "response" /\ dec.kind = "read"
    /\ Decoded(IF dec.page.resp = "CachePairsResp"
                 THEN CachePairsResp("Long", "String", dec.in)
                 ELSE QueryScanResp("Long", "String", dec.in))

\* try_from of a configuration enum
ConvertEnum ==
    /\ dec.stage = "response" /\ dec.kind = "enum"
    /\ Decoded(TryFrom(dec.page.ty, dec.page.value))

NextDecode ==
    DecodePairs \/ DecodeScan \/ DecodeNames \/ ScanDyn \/ ReadCounted \/ ConvertEnum

SpecDecode == InitDecode /\ [][NextDecode]_vars

\* an element the reader of type T can decode
Decodable(T, x) == x = None \/ x.t = T

\* every element of the page can be decoded by the reader of its response
AllDecodable(kind, elems) ==
    IF kind = "names" THEN \A i \in 1..Len(elems) : elems[i].t = "String"
    ELSE \A i \in 1..Len(elems) :
           Decodable("Long", elems[i][1]) /\ Decodable("String", elems[i][2])

\* C12: the caller of query_scan can observe the more flag of the page: two
\* pages that differ in the flag only give the caller different results.
C12_ScanSurfacesMore ==
    dec.stage = "decoded" /\ dec.kind = "scan" /\ dec.out.ok =>
        query_scan(ScanBody([dec.page EXCEPT !.more = ~@])) # dec.out

\* C17: a bulk response with an element that cannot be decoded gives the caller
\* an error and none of the elements; one without gives all its elements.
C17_NoPartialBulk ==
    dec.stage = "decoded" /\ dec.kind \in {"pairs", "scan", "names"} =>
        IF AllDecodable(dec.kind, dec.page.elems)
          THEN dec.out = OkVal(dec.page.elems)
          ELSE dec.out = ErrVal

\* the second pair of a get_all response could not be decoded, the first could
C17_Witness ==
    /\ dec.stage = "decoded" /\ dec.kind = "pairs" /\ Len(dec.page.elems) = 2
    /\ AllDecodable("pairs", <<dec.page.elems[1]>>)
    /\ ~AllDecodable("pairs", <<dec.page.elems[2]>>)
    /\ dec.out = ErrVal

\* C18: when query_scan_dyn returns Ok(more), no byte of the response is left
\* on the stream and more is the flag the server sent.
C18_ScanDynDrained ==
    dec.stage = "decoded" /\ dec.kind = "scan_dyn" /\ dec.out.ok =>
        dec.out.rest = <<>> /\ dec.out.more = dec.page.more

\* C32: query_scan_dyn never fails with "Callback not invoked!".  Whenever
\* send_and_read_dyn returned Ok, the closure ran once and stored a more flag
\* in the cell, and the consumer was called once, with the count of the
\* response; query_scan_dyn then returns Ok with the flag of the cell.
C32_CallbackInvoked ==
    dec.stage = "decoded" /\ dec.kind = "scan_dyn" =>
        LET inner == send_and_read_dyn(dec.flag, dec.in, dec.cb) IN
        /\ dec.out.err # "Callback not invoked!"
        /\ inner.ok =>
             /\ inner.runs = 1 /\ inner.cell.some
             /\ inner.calls = 1 /\ inner.count = Len(dec.page.elems)
             /\ dec.out.ok /\ dec.out.more = inner.cell.v
        /\ dec.out.ok => inner.ok
        /\ dec.out.runs <= 1 /\ dec.out.calls <= dec.out.runs

\* a page of two entries was read by a consumer that took all their bytes and
\* returned Ok: the closure ran once, the consumer once with count 2, and the
\* cell holds the flag
C32_Witness ==
    /\ dec.stage = "decoded" /\ dec.kind = "scan_dyn" /\ dec.flag = "Success"
    /\ Len(dec.page.elems) = 2 /\ dec.cb.ok /\ dec.cb.n = Len(dec.in) - 13
    /\ dec.out.ok /\ dec.out.runs = 1 /\ dec.out.calls = 1 /\ dec.out.count = 2
    /\ dec.out.cell = SomeMore(dec.page.more)

\* C29: CachePairsResp and QueryScanResp decode the first `count` pairs, in
\* wire order, each component a value or null, when the count is not negative;
\* for a negative count they return the empty list without an error.  They
\* leave the bytes behind the pairs decoded, of which QueryScanResp reads one
\* more, as the more flag.
C29_CountedPairs ==
    dec.stage = "decoded" /\ dec.kind = "read" =>
        LET pg == dec.page
            n == IF pg.count < 0 THEN 0 ELSE pg.count
            left == CountedTail(pg, n + 1)
        IN  /\ dec.out.ok
            /\ Len(dec.out.v) = n
            /\ dec.out.v = SubSeq(pg.elems, 1, n)
            /\ dec.out.rest = IF pg.resp = "QueryScanResp" THEN Tail(left) ELSE left

\* a response with a count of -1 in front of two pairs has been decoded as the
\* empty list, the bytes of the pairs left on the stream
C29_Witness ==
    /\ dec.stage = "decoded" /\ dec.kind = "read" /\ dec.page.resp = "CachePairsResp"
    /\ dec.page.count = -1 /\ Len(dec.page.elems) = 2
    /\ dec.out.ok /\ dec.out.v = <<>> /\ dec.out.rest = CountedTail(dec.page, 1)

\* the body of a names response whose count field is c
NamesCounted(elems, c) == ToBytes(write_i32(c) \o ElemsWrite(elems))

\* C30: CacheGetNamesResp gives the caller the names of the response in wire
\* order, as many as the count field says, the empty name included as a name;
\* a null marker among the counted elements gives an error, neither a shorter
\* list nor an empty name.  Read with a count c of fewer elements, it returns
\* the first c and leaves the bytes of the others on the stream.
C30_NamesCountedNoNull ==
    dec.stage = "decoded" /\ dec.kind = "names" =>
        LET elems == dec.page.elems
            Names(c) == \A i \in 1..c : elems[i] # None /\ elems[i].t = "String"
            Nulls(c) == \E i \in 1..c : elems[i] = None
        IN  /\ dec.out.ok => Len(dec.out.val) = Len(elems) /\ dec.out.val = elems
            /\ Nulls(Len(elems)) => dec.out = ErrVal
            /\ Names(Len(elems)) => dec.out = OkVal(elems)
            /\ \A c \in 0..Len(elems) :
                 LET r == CacheGetNamesResp(NamesCounted(elems, c)) IN
                 /\ Nulls(c) => ~r.ok
                 /\ Names(c) =>
                      r = Rd(TRUE, SubSeq(elems, 1, c),
                             ToBytes(ElemsWrite(SubSeq(elems, c + 1, Len(elems)))))

\* two elements were announced, a name and a null marker behind it: the call
\* failed
C30_Witness ==
    /\ dec.stage = "decoded" /\ dec.kind = "names" /\ Len(dec.page.elems) = 2
    /\ dec.page.elems[1] = Str(<<>>) /\ dec.page.elems[2] = None
    /\ dec.out = ErrVal

\* C19: try_from succeeds exactly on the declared discriminants and gives the
\* variant with that discriminant; any other integer is an error.
C19_TryFromDiscriminants ==
    dec.stage = "decoded" /\ dec.kind = "enum" =>
        LET ty == dec.page.ty
            vs == {Variants(ty)[i] : i \in 1..Len(Variants(ty))}
        IN /\ dec.out.ok <=> \E v \in vs : Discriminant(ty, v) = dec.page.value
           /\ dec.out.ok => dec.out.val \in vs /\ Discriminant(ty, dec.out.val) = dec.page.value
           /\ ~dec.out.ok => dec.out = ErrVal
           /\ \A v \in vs : TryFrom(ty, Discriminant(ty, v)) = OkVal(v)

\* an undeclared IndexType byte was refused and a declared one accepted
C19_Witness ==
    /\ dec.stage = "decoded" /\ dec.kind = "enum" /\ dec.page.ty = "IndexType"
    /\ \/ dec.page.value = 3 /\ dec.out = ErrVal
       \/ dec.page.value = 2 /\ dec.out = OkVal("GeoSpatial")

(***************************************************************************)
(* Cache handles sharing one Connection, against a server holding the      *)
(* cache.  A call takes the lock, writes its request frame, reads the      *)
(* response header and, for send_and_read and send_and_read_dyn, the body. *)
(* The server applies the requests in the order they arrive and answers in *)
(* that order; sess.inbound holds its responses on their way to the        *)
(* client, so a read may time out before the response has arrived.         *)
(***************************************************************************)
MaxOps == 3

CacheKeys == {"k1", "k2"}

\* a method call: the method, its key, its value (the old value of
\* replace_if_equals) and the new value of replace_if_equals; the bulk methods
\* take all the keys, put_all the value for each key
Op(m, key, value, new) == [m |-> m, key |-> key, value |-> value, new |-> new]
NoOp == Op("none", "-", "-", "-")

CacheOps ==
    {Op(m, k, "-", "-") : m \in {"get"}, k \in CacheKeys}
    \cup {Op(m, "k1", "-", "-") : m \in KeyMethods \ {"get"}}
    \cup {Op(m, "-", "-", "-") : m \in KeysMethods \cup NoArgMethods \cup ScanMethods
                                       \cup {"get_size_peek_mode", "get_size_peek_modes",
                                             "query_scan_sql"}}
    \cup {Op("put", "k1", v, "-") : v \in {"a", "b"}}
    \cup {Op(m, "k1", "b", "-") : m \in KeyValueMethods \ {"put", "remove_if_equals"}}
    \cup {Op("remove_if_equals", "k1", "a", "-"), Op("put_all", "-", "a", "-")}
    \cup {Op("replace_if_equals", "k1", "a", w) : w \in {"b", "c"}}

\* the methods that call send, and what the others decode from the body
SendMethods == {"put", "put_all", "clear", "clear_key", "clear_keys", "remove_keys",
                "remove_all"}
BoolMethods == {"contains_key", "contains_keys", "put_if_absent", "replace",
                "replace_if_equals", "remove_key", "remove_if_equals"}
ValueMethods == {"get", "get_and_put", "get_and_replace", "get_and_remove",
                 "get_and_put_if_absent"}
SizeMethods == {"get_size", "get_size_peek_mode", "get_size_peek_modes"}
PageMethods == {"query_scan", "query_scan_sql", "query_scan_dyn"}

\* the response type of a method: CacheBoolResp, CacheDataObjectResp,
\* CachePairsResp, CacheSizeResp, QueryScanResp, or none for send
Shape(m) ==
    CASE m \in SendMethods -> "none"
      [] m \in BoolMethods -> "bool"
      [] m \in ValueMethods -> "value"
      [] m = "get_all" -> "pairs"
      [] m \in SizeMethods -> "size"
      [] m \in PageMethods -> "page"

\* the keys a request may change
Writes(op) ==
    CASE op.m \in {"put", "get_and_put", "get_and_replace", "get_and_remove", "put_if_absent",
                   "get_and_put_if_absent", "replace", "replace_if_equals", "clear_key",
                   "remove_key", "remove_if_equals"} -> {op.key}
      [] op.m \in {"put_all", "clear", "clear_keys", "remove_keys", "remove_all"} -> CacheKeys
      [] OTHER -> {}

Bool(b) == IF b THEN <<"true">> ELSE <<"false">>
Present(st) == {k \in CacheKeys : st[k] # "absent"}
Entry(st, k) == IF k \in Present(st) THEN <<k, st[k]>> ELSE <<>>
Count(st) == IF Present(st) = {} THEN <<"0">>
             ELSE IF Present(st) = CacheKeys THEN <<"2">> ELSE <<"1">>

\* the first page of a scan with page size 1: the more flag, then the entry
Page(st) == Bool(Cardinality(Present(st)) > 1)
              \o (IF "k1" \in Present(st) THEN Entry(st, "k1") ELSE Entry(st, "k2"))

Served(st, shape, val) == [store |-> st, shape |-> shape, val |-> val]

\* the server applies a request to the cache and answers
Apply(op, st) ==
    LET k == op.key
        was == IF k \in CacheKeys THEN st[k] ELSE "absent"
        put == IF k \in CacheKeys THEN [st EXCEPT ![k] = op.value] ELSE st
        del == IF k \in CacheKeys THEN [st EXCEPT ![k] = "absent"] ELSE st
        none == [x \in CacheKeys |-> "absent"]
    IN
    CASE op.m = "get" -> Served(st, "value", <<was>>)
      [] op.m = "get_all" -> Served(st, "pairs", Entry(st, "k1") \o Entry(st, "k2"))
      [] op.m = "put" -> Served(put, "none", <<>>)
      [] op.m = "put_all" -> Served([x \in CacheKeys |-> op.value], "none", <<>>)
      [] op.m = "contains_key" -> Served(st, "bool", Bool(was # "absent"))
      [] op.m = "contains_keys" -> Served(st, "bool", Bool(Present(st) = CacheKeys))
      [] op.m = "get_and_put" -> Served(put, "value", <<was>>)
      [] op.m = "get_and_replace" ->
           Served(IF was # "absent" THEN put ELSE st, "value", <<was>>)
      [] op.m = "get_and_remove" -> Served(del, "value", <<was>>)
      [] op.m = "put_if_absent" ->
           Served(IF was = "absent" THEN put ELSE st, "bool", Bool(was = "absent"))
      [] op.m = "get_and_put_if_absent" ->
           Served(IF was = "absent" THEN put ELSE st, "value", <<was>>)
      [] op.m = "replace" ->
           Served(IF was # "absent" THEN put ELSE st, "bool", Bool(was # "absent"))
      [] op.m = "replace_if_equals" ->
           Served(IF was = op.value THEN [st EXCEPT ![k] = op.new] ELSE st,
                  "bool", Bool(was = op.value))
      [] op.m \in {"clear", "remove_all", "clear_keys", "remove_keys"} ->
           Served(none, "none", <<>>)
      [] op.m = "clear_key" -> Served(del, "none", <<>>)
      [] op.m = "remove_key" -> Served(del, "bool", Bool(was # "absent"))
      [] op.m = "remove_if_equals" ->
           Served(IF was = op.value THEN del ELSE st, "bool", Bool(was = op.value))
      [] op.m \in SizeMethods -> Served(st, "size", Count(st))
      [] op.m \in PageMethods -> Served(st, "page", Page(st))

\* what the method returns for the body it decoded: query_scan and
\* query_scan_sql return the pairs, query_scan_dyn the more flag
MethodResult(m, val) ==
    CASE m \in {"query_scan", "query_scan_sql"} -> Tail(val)
      [] m = "query_scan_dyn" -> <<Head(val)>>
      [] OTHER -> val

\* Cache::new(id, cfg, conn) for the cache "a"; every thread holds a clone
Handle == [id |-> string_to_java_hashcode(<<97>>), cfg |-> [name |-> <<97>>, num_backup |-> 0]]

\* a call of a Cache method on the handle self; cid is the cache id of its request
CacheCall(pc, op) ==
    [pc |-> pc, self |-> Handle, cid |-> 0,
     op |-> op, locks |-> 0, frames |-> 0, opc |-> "none", hdrs |-> 0,
     decs |-> 0, resp |-> <<>>, shape |-> "none", expect |-> "none", applied |-> <<>>,
     res |-> "none", val |-> <<>>]
CacheIdle == CacheCall("idle", NoOp)
NoRet == CacheCall("none", NoOp)

InitCache ==
    /\ ConnInit
    /\ enc = EncOff
    /\ frame = FrameOff
    /\ dec = DecOff
    /\ \E v \in {"absent", "a"} : store = [k \in CacheKeys |-> IF k = "k1" THEN v ELSE "absent"]
    /\ sess = [holder |-> 0, poisoned |-> FALSE, inbound |-> <<>>, sync |-> TRUE, n |-> 0]
    /\ cc = [t \in Threads |-> CacheIdle]
    /\ ret = NoRet
    /\ hist = [put |-> [k \in CacheKeys |-> "none"], casTrue |-> 0]

\* a handle whose id was cleared by the call
HandleReset(r) == [r.self EXCEPT !.id = 0]
\* the handle after a call: every method borrows &self, so it is the handle before
HandleAfter(r) == r.self

\* the call of thread t ends with this result; the guard is dropped
Returns(t, r, res, val) ==
    /\ ret' = [r EXCEPT !.pc = "returned", !.res = res, !.val = val, !.self = HandleAfter(r)]
    /\ cc' = [cc EXCEPT ![t] = [CacheIdle EXCEPT !.self = HandleAfter(r)]]

\* after a read that timed out the error is returned; or the request is sent again
AfterTimeoutRetry(r) == [r EXCEPT !.pc = "locked"]
AfterTimeout(r) == [r EXCEPT !.pc = "returned", !.res = "IoError"]

\* a public method of a Cache handle is called
Invoke(t) ==
    /\ cc[t].pc = "idle"
    /\ sess.n + Cardinality({u \in Threads : cc[u].pc = "lock"}) < MaxOps
    /\ cc' = [cc EXCEPT ![t] = [CacheCall("lock", NoOp) EXCEPT !.self = cc[t].self]]
    /\ ret' = NoRet
    /\ UNCHANGED <<ConnVars, enc, frame, dec, store, sess, hist>>

\* self.stream.lock()?
AcquireLock(t) ==
    /\ cc[t].pc = "lock"
    /\ sess.holder = 0
    /\ IF sess.poisoned
         THEN /\ Returns(t, [cc[t] EXCEPT !.locks = 1], "MutexPoisoned", <<>>)
              /\ sess' = [sess EXCEPT !.n = @ + 1]
         ELSE /\ cc' = [cc EXCEPT ![t].pc = "locked", ![t].locks = 1]
              /\ sess' = [sess EXCEPT !.holder = t, !.n = @ + 1]
              /\ ret' = NoRet
    /\ UNCHANGED <<ConnVars, enc, frame, dec, store, hist>>

\* send_safe up to the flush: the frame with the method's op code and CacheReq.
\* The server applies the request and its response sets out.
SendRequest(t) ==
    /\ cc[t].pc = "locked"
    /\ \E op \in IF cc[t].op = NoOp THEN CacheOps ELSE {cc[t].op} :
         LET served == Apply(op, store) IN
         /\ cc' = [cc EXCEPT ![t].pc = "sent", ![t].op = op, ![t].frames = @ + 1,
                             ![t].cid = cc[t].self.id,
                             ![t].opc = MethodOpCode(op.m),
                             ![t].expect = IF op.m = "get" THEN hist.put[op.key] ELSE "none",
                             ![t].applied = IF served.shape = "bool" THEN served.val ELSE <<>>]
         /\ store' = served.store
         /\ sess' = [sess EXCEPT !.inbound = Append(@, [shape |-> served.shape,
                                                        val |-> served.val])]
         /\ hist' = [put |-> [k \in CacheKeys |->
                                IF k \in Writes(op) THEN "none" ELSE hist.put[k]],
                     casTrue |-> IF "k1" \in Writes(op) /\ op.m # "replace_if_equals"
                                   THEN 0 ELSE hist.casTrue]
    /\ ret' = NoRet
    /\ UNCHANGED <<ConnVars, enc, frame, dec>>

\* a call has returned Ok: what is known of the cache afterwards
Learned(r) ==
    [put |-> IF r.op.m = "put" THEN [hist.put EXCEPT ![r.op.key] = r.op.value] ELSE hist.put,
     casTrue |-> IF r.op.m = "replace_if_equals" /\ r.val = <<"true">>
                   THEN hist.casTrue + 1 ELSE hist.casTrue]

\* read_resp_header: the read times out, or the next bytes of the stream are
\* read as the header.  send returns here; a body the caller does not read
\* stays on the stream and leaves it out of step
ReadHeader(t) ==
    /\ cc[t].pc = "sent"
    /\ \/ /\ LET r == AfterTimeout(cc[t]) IN
               IF r.pc = "returned"
                 THEN Returns(t, r, r.res, <<>>) /\ sess' = [sess EXCEPT !.holder = 0]
                 ELSE cc' = [cc EXCEPT ![t] = r] /\ ret' = NoRet /\ UNCHANGED sess
          /\ UNCHANGED hist
       \/ /\ sess.inbound # <<>>
          /\ LET resp == Head(sess.inbound)
                 r == [cc[t] EXCEPT !.hdrs = @ + 1]
             IN
             IF ~sess.sync
               THEN \* bytes that are no header
                    /\ Returns(t, r, "Custom", <<>>)
                    /\ sess' = [sess EXCEPT !.holder = 0]
                    /\ UNCHANGED hist
               ELSE IF Shape(r.op.m) = "none"
                 THEN /\ Returns(t, r, "Ok", <<>>)
                      /\ sess' = [sess EXCEPT !.holder = 0, !.inbound = Tail(@),
                                              !.sync = (resp.shape = "none")]
                      /\ hist' = Learned(r)
                 ELSE /\ cc' = [cc EXCEPT ![t] = [r EXCEPT !.pc = "body", !.resp = resp.val,
                                                            !.shape = resp.shape]]
                      /\ sess' = [sess EXCEPT !.inbound = Tail(@)]
                      /\ ret' = NoRet
                      /\ UNCHANGED hist
    /\ UNCHANGED <<ConnVars, enc, frame, dec, store>>

\* T::read(buf), or the consumer of query_scan_dyn: a body of the type the
\* method expects is decoded; the bytes of any other response are not, and
\* the stream is out of step from then on.  The consumer may fail or panic.
ReadResponse(t) ==
    /\ cc[t].pc = "body"
    /\ LET r == [cc[t] EXCEPT !.decs = @ + 1] IN
       \/ /\ r.shape = Shape(r.op.m)
          /\ Returns(t, r, "Ok", MethodResult(r.op.m, r.resp))
          /\ sess' = [sess EXCEPT !.holder = 0]
          /\ hist' = Learned([r EXCEPT !.val = MethodResult(r.op.m, r.resp)])
       \/ /\ r.shape # Shape(r.op.m) \/ r.op.m = "query_scan_dyn"
          /\ Returns(t, r, "Custom", <<>>)
          /\ sess' = [sess EXCEPT !.holder = 0, !.sync = FALSE]
          /\ UNCHANGED hist
       \/ /\ r.op.m = "query_scan_dyn"
          /\ ret' = [r EXCEPT !.pc = "panicked", !.res = "Panic", !.self = HandleAfter(r)]
          /\ cc' = [cc EXCEPT ![t] = [CacheCall("dead", NoOp) EXCEPT !.self = HandleAfter(r)]]
          /\ sess' = [sess EXCEPT !.holder = 0, !.poisoned = TRUE, !.sync = FALSE]
          /\ UNCHANGED hist
    /\ UNCHANGED <<ConnVars, enc, frame, dec, store>>

NextCache ==
    \/ \E t \in Threads : Invoke(t)
    \/ \E t \in Threads : AcquireLock(t)
    \/ \E t \in Threads : SendRequest(t)
    \/ \E t \in Threads : ReadHeader(t)
    \/ \E t \in Threads : ReadResponse(t)

SpecCache == InitCache /\ [][NextCache]_vars

\* C11: a call of a Cache method takes the lock once, writes one frame at most,
\* with the method's op code, reads one response header at most and decodes one
\* body at most; a result comes from a response read in that call.
C11_OneRoundTrip ==
    /\ \A t \in Threads :
         /\ cc[t].locks <= 1 /\ cc[t].frames <= 1 /\ cc[t].hdrs <= 1 /\ cc[t].decs <= 1
         /\ cc[t].frames = 1 => cc[t].opc = MethodOpCode(cc[t].op.m)
    /\ ret.pc # "none" =>
         /\ ret.locks = 1 /\ ret.frames <= 1 /\ ret.hdrs <= ret.frames /\ ret.decs <= ret.hdrs
         /\ ret.frames = 1 => ret.opc = MethodOpCode(ret.op.m)
         /\ ret.res = "Ok" =>
              /\ ret.frames = 1 /\ ret.hdrs = 1
              /\ ret.decs = IF Shape(ret.op.m) = "none" THEN 0 ELSE 1

\* a get has returned a value after one round trip following an earlier call
C11_Witness ==
    /\ ret.pc = "returned" /\ ret.op.m = "get" /\ ret.res = "Ok" /\ sess.n >= 2
    /\ ret.frames = 1 /\ ret.hdrs = 1 /\ ret.decs = 1

\* C13: a get(k) sent after put(k, v) returned Ok, with no other write to k sent
\* in between, returns Some(v) when it returns a value.
C13_PutThenGet ==
    ret.pc = "returned" /\ ret.op.m = "get" /\ ret.res = "Ok" /\ ret.expect # "none" =>
        ret.val = <<ret.expect>>

\* C14: replace_if_equals returns true only when the server found the old value
\* and replaced it, and of the calls with the same old value and new values
\* other than it, with no other write to the key, one at most returns true.
C14_CompareAndSwap ==
    /\ ret.pc = "returned" /\ ret.op.m = "replace_if_equals" /\ ret.res = "Ok" =>
           ret.val = ret.applied
    /\ hist.casTrue <= 1

\* C23: no Cache method changes the id or the configuration of the handle it is
\* called on, however the call ends; every request carries the handle's id, and
\* of the client's state a step of a method changes the Session alone.
C23_HandlesStateless ==
    /\ \A t \in Threads : cc[t].self = Handle /\ (cc[t].frames = 1 => cc[t].cid = Handle.id)
    /\ ret.pc # "none" => ret.self = Handle /\ (ret.frames = 1 => ret.cid = Handle.id)

\* a call on one clone has failed after an earlier call took the lock, and the
\* handle of each thread is the handle it was created as
C23_Witness ==
    /\ ret.pc = "returned" /\ ret.res = "IoError" /\ ret.frames = 1 /\ sess.n >= 2
    /\ ret.self = Handle /\ ret.cid = Handle.id
    /\ \A t \in Threads : cc[t].self = Handle

====
